---------------------------- MODULE Spec2Model ----------------------------
(***************************************************************************)
(* A model of the per-tick simulation core of the creature class           *)
(* (src/unnamed/part_000, the Creature implementation): its perception     *)
(* cache, the master/summon graph, health and death resolution, hit        *)
(* mitigation, the damage ledger, death attribution, experience            *)
(* propagation, the follow reference, the condition collection and the     *)
(* queued walk.  The components keep disjoint state, so each has its own   *)
(* specification (SpecCache, SpecOwner, SpecDeath, SpecBlock, SpecLedger,  *)
(* SpecKill, SpecGain, SpecFollow, SpecCond, SpecWalkCache, SpecWalk) over *)
(* the same variables; an action leaves the variables of the other         *)
(* components unchanged.                                                   *)
(***************************************************************************)
EXTENDS Integers, Sequences, FiniteSets, TLC

VARIABLES
    \* ---- perception cache (Creature::localMapCache and its owner)
    position,          \* the entity's position [x, y, z]
    walkable,          \* the tiles on which tile->queryAdd(...) == RETURNVALUE_NOERROR
    localMapCache,     \* bool localMapCache[mapWalkHeight][mapWalkWidth]
    isMapLoaded,       \* Creature::isMapLoaded
    lastStepCost,      \* Creature::lastStepCost
    \* ---- ownership graph, health and the asynchronous queue
    master,            \* Creature::master of every entity (None = nullptr)
    summons,           \* Creature::summons of every entity, in list order
    health,            \* Creature::health of every entity
    removed,           \* the entities removed from the world
    dispatcher,        \* g_dispatcher: the asynchronous queue, in submission order
    deathCount,        \* how many times onDeath has run for every entity
    upward,            \* TRUE once setMaster attached an entity to itself or a descendant
    deathResult,       \* what the last onDeath attributed: mostDamageCreature, experienceMap
    \* ---- hit mitigation
    blockCount,        \* Creature::blockCount, the defense charges
    blockTicks,        \* Creature::blockTicks
    target,            \* the hit entity's kind: defense, armor, canUseDefense, damage immunities
    call,              \* the arguments blockHit is called with
    hit,               \* the results of the last blockHit call
    \* ---- damage ledger
    damageMap,         \* Creature::damageMap: attacker id -> [total, ticks]
    lastHitCreatureId, \* Creature::lastHitCreatureId
    now,               \* OTSYS_TIME()
    \* ---- death attribution
    lostExperience,    \* getLostExperience() of the entity that owns the ledger
    sharedLeader,      \* attacker id -> the leader of its party with shared experience (None = none)
    \* ---- experience propagation
    gainCall,          \* the onGainExperience call in progress and the notifications made
    \* ---- follow reference
    followerPos,       \* getPosition() of the following entity
    creaturePos,       \* getPosition() of every entity that can be followed
    followCreature,    \* Creature::followCreature (None = expired)
    hasFollowPath,     \* Creature::hasFollowPath
    isUpdatingPath,    \* Creature::isUpdatingPath
    \* ---- condition collection
    conditions,        \* Creature::conditions of every entity, in list order
    scheduler,         \* g_scheduler: the deferred forceAddCondition / forceRemoveCondition tasks
    created,           \* how many condition instances have been created
    walking,           \* TRUE while getWalkDelay() > 0 for the entity that receives conditions
    wearer,            \* the deflection chance of the receiving player's items and the caster's kind
    immunities,        \* getConditionSuppressions(), getConditionImmunities(), getDamageImmunities() of the receiver
    crashed,           \* TRUE once a null pointer was dereferenced
    \* ---- queued walk
    listWalkDir,       \* Creature::listWalkDir, front first
    cancelNextWalk,    \* Creature::cancelNextWalk
    eventWalk,         \* TRUE while Creature::eventWalk != 0 (a walk check is scheduled)
    forceUpdateFollowPath, \* Creature::forceUpdateFollowPath
    walkStarted,       \* the direction list the last startAutoWalk was given
    walkMoved,         \* the directions of the move requests made since then, in order
    \* ---- attack reference
    attackedCreature,  \* Creature::attackedCreature of every entity (None = expired)
    \* ---- frozen distance matcher
    pathCondition,     \* FrozenPathingConditionCall::targetPos, the search start and the FindPathParams
    bestMatchDist,     \* the best-match value the calls of one path search share
    bestSeen,          \* the largest distance to the target of the tiles accepted so far
    \* ---- walk timer
    walkEvents,        \* the handles of the armed g_scheduler events that run the entity's walk check
    eventWalkId,       \* Creature::eventWalk as a handle (0 = none)
    \* ---- NPC idle state (Self as an Npc)
    isIdle,            \* Npc::isIdle
    spectators,        \* Npc::spectators, the players the NPC counts as watching it
    inView,            \* the entities on the map that see the NPC's position
    placed,            \* TRUE once the NPC has been put on the map
    \* ---- script events
    eventsList,        \* Creature::eventsList, in list order
    scriptEventsBitField, \* Creature::scriptEventsBitField
    \* ---- the operation that produced the current state
    lastOp

cacheVars  == <<position, walkable, localMapCache, isMapLoaded, lastStepCost>>
ownerVars  == <<master, summons, health, removed, dispatcher, deathCount, upward, deathResult>>
blockVars  == <<blockCount, blockTicks, target, call, hit>>
ledgerVars == <<damageMap, lastHitCreatureId, now>>
killVars   == <<lostExperience, sharedLeader>>
gainVars   == <<gainCall>>
followVars == <<followerPos, creaturePos, followCreature, hasFollowPath, isUpdatingPath>>
condVars   == <<conditions, scheduler, created, walking, wearer, immunities, crashed>>
walkVars   == <<listWalkDir, cancelNextWalk, eventWalk, forceUpdateFollowPath,
                walkStarted, walkMoved>>
attackVars == <<attackedCreature>>
matchVars == <<pathCondition, bestMatchDist, bestSeen>>
timerVars == <<walkEvents, eventWalkId>>
npcVars == <<isIdle, spectators, inView, placed>>
eventVars == <<eventsList, scriptEventsBitField>>
vars == <<cacheVars, ownerVars, blockVars, ledgerVars, killVars, gainVars, followVars,
          condVars, walkVars, attackVars, matchVars, timerVars, npcVars, eventVars, lastOp>>

None == 0  \* nullptr, and the creature id 0 that names no creature
\* the attribution of an onDeath that has not run or found an empty ledger
NoDeathResult == [mostDamageCreature |-> None, experienceMap |-> <<>>]

Abs(n) == IF n < 0 THEN -n ELSE n
Min(a, b) == IF a < b THEN a ELSE b
Max(a, b) == IF a > b THEN a ELSE b

-----------------------------------------------------------------------------
(***************************************************************************)
(* Bounds of the model.                                                    *)
(***************************************************************************)
WorldMax == 2            \* tiles exist at x, y in 0..WorldMax; elsewhere getTile is null
MaxBlocked == 2          \* at most this many existing tiles refuse queryAdd
maxWalkCacheWidth == 2   \* cache radius in x (scaled down)
maxWalkCacheHeight == 1  \* cache radius in y (scaled down)

mapWalkWidth == 2 * maxWalkCacheWidth + 1
mapWalkHeight == 2 * maxWalkCacheHeight + 1

Floor == 7
Coords == 0..WorldMax
Tiles == Coords \X Coords
Pos(x, y) == [x |-> x, y |-> y, z |-> Floor]

-----------------------------------------------------------------------------
(***************************************************************************)
(* Perception cache.                                                       *)
(***************************************************************************)

\* Position::getOffsetX / getOffsetY: signed.
getOffsetX(p1, p2) == p1.x - p2.x
getOffsetY(p1, p2) == p1.y - p2.y
\* Position::getDistanceX / getDistanceY: absolute.
getDistanceX(p1, p2) == Abs(getOffsetX(p1, p2))
getDistanceY(p1, p2) == Abs(getOffsetY(p1, p2))

\* tile && tile->queryAdd(creature, FLAG_PATHFINDING | FLAG_IGNOREFIELDDAMAGE) == RETURNVALUE_NOERROR
\* for the tile g_game.map.getTile(x, y, z) (null outside the world).
TileWalkable(x, y) == <<x, y>> \in walkable

EmptyCache == [y \in 0..(mapWalkHeight - 1) |-> [x \in 0..(mapWalkWidth - 1) |-> FALSE]]

\* an update that writes the whole cache row of the cell
UpdateTileCacheRow(cache, ok, dx, dy) ==
    IF Abs(dx) <= maxWalkCacheWidth /\ Abs(dy) <= maxWalkCacheHeight
    THEN [cache EXCEPT ![maxWalkCacheHeight + dy] = [x \in 0..(mapWalkWidth - 1) |-> ok]]
    ELSE cache

\* Creature::updateTileCache(tile, dx, dy)
updateTileCacheAt(cache, ok, dx, dy) ==
    IF Abs(dx) <= maxWalkCacheWidth /\ Abs(dy) <= maxWalkCacheHeight
    THEN [cache EXCEPT ![maxWalkCacheHeight + dy][maxWalkCacheWidth + dx] = ok]
    ELSE cache

\* Creature::updateTileCache(tile, pos) for an entity standing at myPos
updateTileCache(cache, myPos, pos) ==
    IF pos.z = myPos.z
    THEN updateTileCacheAt(cache, TileWalkable(pos.x, pos.y),
                           getOffsetX(pos, myPos), getOffsetY(pos, myPos))
    ELSE cache

\* Creature::updateMapCache: every cell recomputed from the map
updateMapCache(myPos) ==
    [y \in 0..(mapWalkHeight - 1) |->
        [x \in 0..(mapWalkWidth - 1) |->
            TileWalkable(myPos.x + (x - maxWalkCacheWidth),
                         myPos.y + (y - maxWalkCacheHeight))]]

\* the loops "update 0" / "update mapWalkHeight - 1": one row re-queried
UpdateRow(cache, myPos, dy) ==
    [cache EXCEPT ![maxWalkCacheHeight + dy] =
        [x \in 0..(mapWalkWidth - 1) |->
            TileWalkable(myPos.x + (x - maxWalkCacheWidth), myPos.y + dy)]]

\* the loops "update 0" / "update mapWalkWidth - 1": one column re-queried
UpdateColumn(cache, myPos, dx) ==
    [y \in 0..(mapWalkHeight - 1) |->
        [cache[y] EXCEPT ![maxWalkCacheWidth + dx] =
            TileWalkable(myPos.x + dx, myPos.y + (y - maxWalkCacheHeight))]]

\* north: memcpy(localMapCache[y + 1], localMapCache[y]) for y = mapWalkHeight - 2 .. 0
ShiftRowsSouth(cache) ==
    [y \in 0..(mapWalkHeight - 1) |-> IF y >= 1 THEN cache[y - 1] ELSE cache[y]]

\* south: memcpy(localMapCache[y], localMapCache[y + 1]) for y = 0 .. mapWalkHeight - 2
ShiftRowsNorth(cache) ==
    [y \in 0..(mapWalkHeight - 1) |-> IF y <= mapWalkHeight - 2 THEN cache[y + 1] ELSE cache[y]]

\* starty / endy of the east and west branches
StartY(oldPos, newPos) ==
    LET dy == getDistanceY(oldPos, newPos) IN IF dy < 0 THEN 0 ELSE IF dy > 0 THEN dy ELSE 0
EndY(oldPos, newPos) ==
    LET dy == getDistanceY(oldPos, newPos) IN IF dy < 0 THEN mapWalkHeight - 1 + dy ELSE mapWalkHeight - 1

\* east: localMapCache[y][x] = localMapCache[y][x + 1] for x = 0 .. mapWalkWidth - 2
ShiftColumnsWest(cache, starty, endy) ==
    [y \in 0..(mapWalkHeight - 1) |->
        IF starty <= y /\ y <= endy
        THEN [x \in 0..(mapWalkWidth - 1) |->
                 IF x <= mapWalkWidth - 2 THEN cache[y][x + 1] ELSE cache[y][x]]
        ELSE cache[y]]

\* west: localMapCache[y][x + 1] = localMapCache[y][x] for x = mapWalkWidth - 2 .. 0
ShiftColumnsEast(cache, starty, endy) ==
    [y \in 0..(mapWalkHeight - 1) |->
        IF starty <= y /\ y <= endy
        THEN [x \in 0..(mapWalkWidth - 1) |->
                 IF x >= 1 THEN cache[y][x - 1] ELSE cache[y][x]]
        ELSE cache[y]]

\* Creature::onCreatureMove, "update map cache", the same-floor branch (myPos = newPos)
ShiftCache(cache, oldPos, newPos) ==
    LET c1 == IF oldPos.y > newPos.y
              THEN UpdateRow(ShiftRowsSouth(cache), newPos, -maxWalkCacheHeight)
              ELSE IF oldPos.y < newPos.y
              THEN UpdateRow(ShiftRowsNorth(cache), newPos, maxWalkCacheHeight)
              ELSE cache
        c2 == IF oldPos.x < newPos.x
              THEN UpdateColumn(ShiftColumnsWest(c1, StartY(oldPos, newPos), EndY(oldPos, newPos)),
                                newPos, maxWalkCacheWidth)
              ELSE IF oldPos.x > newPos.x
              THEN UpdateColumn(ShiftColumnsEast(c1, StartY(oldPos, newPos), EndY(oldPos, newPos)),
                                newPos, -maxWalkCacheWidth)
              ELSE c1
    IN updateTileCache(c2, newPos, oldPos)

\* Creature::onCreatureMove for the step's cost
StepCost(oldPos, newPos, teleport) ==
    IF teleport THEN 1
    ELSE IF oldPos.z # newPos.z THEN 2
    ELSE IF getDistanceX(newPos, oldPos) >= 1 /\ getDistanceY(newPos, oldPos) >= 1 THEN 3
    ELSE 1

\* Creature::onCreatureAppear(creature == this): the cache is loaded
onCreatureAppear ==
    /\ ~isMapLoaded
    /\ isMapLoaded' = TRUE
    /\ localMapCache' = updateMapCache(position)
    /\ lastOp' = [op |-> "onCreatureAppear"]
    /\ UNCHANGED <<position, walkable, lastStepCost>>
    /\ UNCHANGED <<ownerVars, blockVars, ledgerVars, killVars, gainVars, followVars, condVars, walkVars, attackVars, matchVars, timerVars, npcVars, eventVars>>

\* Creature::onCreatureMove(creature == this) after the entity moved from
\* position to newPos: the step cost and the cache maintenance.  (The walk
\* timer, the summons and the targets the handler also looks at are state
\* of other components.)
onCreatureMove(newPos, teleport) ==
    /\ newPos # position
    /\ <<newPos.x, newPos.y>> \in walkable
    /\ teleport \/ (getDistanceX(newPos, position) <= 1 /\ getDistanceY(newPos, position) <= 1)
    /\ position' = newPos
    /\ lastStepCost' = StepCost(position, newPos, teleport)
    /\ localMapCache' =
         IF isMapLoaded
         THEN IF teleport \/ position.z # newPos.z
              THEN updateMapCache(newPos)
              ELSE ShiftCache(localMapCache, position, newPos)
         ELSE localMapCache
    /\ lastOp' = [op |-> "onCreatureMove", from |-> position, teleport |-> teleport]
    /\ UNCHANGED <<walkable, isMapLoaded>>
    /\ UNCHANGED <<ownerVars, blockVars, ledgerVars, killVars, gainVars, followVars, condVars, walkVars, attackVars, matchVars, timerVars, npcVars, eventVars>>

-----------------------------------------------------------------------------
(***************************************************************************)
(* Ownership graph: Creature::master and Creature::summons.                *)
(***************************************************************************)
NumCreatures == 3  \* the entities are 1..NumCreatures
Creatures == 1..NumCreatures
NumMortals == 2    \* the entities 1..NumMortals take part in health changes
Mortals == 1..NumMortals
MaxHealth == 2     \* getMaxHealth() of every entity
MaxQueue == 2      \* the asynchronous queue holds at most this many tasks

\* std::find(list.begin(), list.end(), c): the index of the first occurrence, 0 for end()
RECURSIVE FindFrom(_, _, _)
FindFrom(list, c, i) ==
    IF i > Len(list) THEN 0
    ELSE IF list[i] = c THEN i
    ELSE FindFrom(list, c, i + 1)
Find(list, c) == FindFrom(list, c, 1)

\* list.erase(it) for the iterator at index i
Erase(list, i) == [k \in 1..(Len(list) - 1) |-> IF k < i THEN list[k] ELSE list[k + 1]]

\* the occurrences of c in a list
Count(list, c) == Cardinality({k \in 1..Len(list) : list[k] = c})

\* a setMaster that links the new master but never unlinks the old one
SetMasterNoErase(ms, ss, c, newMaster) ==
    IF newMaster = None /\ ms[c] = None
    THEN [master |-> ms, summons |-> ss, ret |-> FALSE]
    ELSE [master |-> [ms EXCEPT ![c] = newMaster],
          summons |-> IF newMaster # None
                      THEN [ss EXCEPT ![newMaster] = Append(@, c)]
                      ELSE ss,
          ret |-> TRUE]

\* a setMaster that also records the link on the wrong side (newMaster->master = this)
SetMasterBothSides(ms, ss, c, newMaster) ==
    IF newMaster = None /\ ms[c] = None
    THEN [master |-> ms, summons |-> ss, ret |-> FALSE]
    ELSE LET s1 == IF newMaster # None
                   THEN [ss EXCEPT ![newMaster] = Append(@, c)]
                   ELSE ss
             oldMaster == ms[c]
             m1 == [ms EXCEPT ![c] = newMaster]
         IN [master |-> IF newMaster # None /\ newMaster # c
                        THEN [m1 EXCEPT ![newMaster] = c]
                        ELSE m1,
             summons |-> IF oldMaster # None /\ Find(s1[oldMaster], c) # 0
                         THEN [s1 EXCEPT ![oldMaster] = Erase(@, Find(@, c))]
                         ELSE s1,
             ret |-> TRUE]

\* a setMaster that lacks the early return for "no master before, none given"
SetMasterNoFailure(ms, ss, c, newMaster) ==
    LET s1 == IF newMaster # None
              THEN [ss EXCEPT ![newMaster] = Append(@, c)]
              ELSE ss
        oldMaster == ms[c]
    IN [master |-> [ms EXCEPT ![c] = newMaster],
        summons |-> IF oldMaster # None /\ Find(s1[oldMaster], c) # 0
                    THEN [s1 EXCEPT ![oldMaster] = Erase(@, Find(@, c))]
                    ELSE s1,
        ret |-> TRUE]

\* Creature::setMaster(newMaster) called on c, on the graph (ms, ss):
\* the graph afterwards and the value returned
SetMasterResult(ms, ss, c, newMaster) ==
    IF newMaster = None /\ ms[c] = None
    THEN [master |-> ms, summons |-> ss, ret |-> FALSE]
    ELSE LET s1 == IF newMaster # None
                   THEN [ss EXCEPT ![newMaster] = Append(@, c)]
                   ELSE ss
             oldMaster == ms[c]
         IN [master |-> [ms EXCEPT ![c] = newMaster],
             summons |-> IF oldMaster # None /\ Find(s1[oldMaster], c) # 0
                         THEN [s1 EXCEPT ![oldMaster] = Erase(@, Find(@, c))]
                         ELSE s1,
             ret |-> TRUE]

\* the entities reached from x by following master references (1 to NumCreatures hops)
RECURSIVE MasterChain(_, _, _)
MasterChain(ms, x, n) ==
    IF n = 0 \/ ms[x] = None THEN {}
    ELSE {ms[x]} \cup MasterChain(ms, ms[x], n - 1)
Ancestors(ms, x) == MasterChain(ms, x, NumCreatures)

\* Creature::setMaster as an operation of the program
setMaster(c, newMaster) ==
    LET r == SetMasterResult(master, summons, c, newMaster) IN
    /\ master' = r.master
    /\ summons' = r.summons
    /\ upward' = (upward \/ (newMaster # None /\ c \in ({newMaster} \cup Ancestors(master, newMaster))))
    /\ lastOp' = [op |-> "setMaster", self |-> c, newMaster |-> newMaster,
                  oldMaster |-> master[c], ret |-> r.ret]
    /\ UNCHANGED <<health, removed, dispatcher, deathCount, deathResult>>
    /\ UNCHANGED <<cacheVars, blockVars, ledgerVars, killVars, gainVars, followVars, condVars, walkVars, attackVars, matchVars, timerVars, npcVars, eventVars>>

-----------------------------------------------------------------------------
(***************************************************************************)
(* The state of each component after construction.                         *)
(***************************************************************************)
CacheIdle ==
    /\ position = Pos(0, 0)
    /\ walkable = Tiles
    /\ localMapCache = EmptyCache
    /\ isMapLoaded = FALSE
    /\ lastStepCost = 1

OwnerIdle ==
    /\ master = [c \in Creatures |-> None]
    /\ summons = [c \in Creatures |-> <<>>]
    /\ health = [c \in Creatures |-> MaxHealth]
    /\ removed = {}
    /\ dispatcher = <<>>
    /\ deathCount = [c \in Creatures |-> 0]
    /\ upward = FALSE
    /\ deathResult = NoDeathResult

BlockIdle ==
    /\ blockCount = 0
    /\ blockTicks = 0
    /\ target = [defense |-> 0, armor |-> 0, canUseDefense |-> TRUE, damageImmunities |-> {}]
    /\ call = [combatType |-> "COMBAT_PHYSICALDAMAGE", damage |-> 0,
               checkDefense |-> FALSE, checkArmor |-> FALSE]
    /\ hit = [op |-> "none"]

LedgerIdle ==
    /\ damageMap = <<>>
    /\ lastHitCreatureId = None
    /\ now = 0

KillIdle ==
    /\ lostExperience = 0
    /\ sharedLeader = [c \in Creatures |-> None]

GainIdle ==
    /\ gainCall = [active |-> FALSE, returning |-> FALSE, at |-> None, gainExp |-> 0,
                   depth |-> 0, base |-> 0, notified |-> <<>>]

FollowIdle ==
    /\ followerPos = Pos(0, 0)
    /\ creaturePos = [c \in Creatures |-> Pos(0, 0)]
    /\ followCreature = None
    /\ hasFollowPath = FALSE
    /\ isUpdatingPath = FALSE

CondIdle ==
    /\ conditions = [c \in Creatures |-> <<>>]
    /\ scheduler = <<>>
    /\ created = 0
    /\ walking = FALSE
    /\ wearer = [chance |-> 0, caster |-> "player"]
    /\ immunities = [suppress |-> {}, condition |-> {}, damage |-> {}]
    /\ crashed = FALSE

WalkIdle ==
    /\ listWalkDir = <<>>
    /\ cancelNextWalk = FALSE
    /\ eventWalk = FALSE
    /\ forceUpdateFollowPath = FALSE
    /\ walkStarted = <<>>
    /\ walkMoved = <<>>

AttackIdle ==
    /\ attackedCreature = [c \in Creatures |-> None]

MatchIdle ==
    /\ pathCondition = [targetPos |-> [x |-> 0, y |-> 0], startPos |-> [x |-> 0, y |-> 0],
                        fullPathSearch |-> TRUE, clearSight |-> FALSE,
                        minTargetDist |-> 0, maxTargetDist |-> 0]
    /\ bestMatchDist = 0
    /\ bestSeen = 0

TimerIdle ==
    /\ walkEvents = {}
    /\ eventWalkId = 0

NpcIdle ==
    /\ isIdle = TRUE
    /\ spectators = {}
    /\ inView = {}
    /\ placed = FALSE

EventIdle ==
    /\ eventsList = <<>>
    /\ scriptEventsBitField = 0

-----------------------------------------------------------------------------
(***************************************************************************)
(* SpecCache: an entity that uses the perception cache is placed on a      *)
(* walkable tile of an unchanging map, appears (the cache is loaded) and    *)
(* then steps or is teleported from tile to tile.                          *)
(***************************************************************************)
InitCache ==
    /\ walkable \in {w \in SUBSET Tiles : Cardinality(Tiles \ w) <= MaxBlocked}
    /\ position \in {Pos(t[1], t[2]) : t \in walkable}
    /\ localMapCache = EmptyCache
    /\ isMapLoaded = FALSE
    /\ lastStepCost = 1
    /\ OwnerIdle /\ BlockIdle /\ LedgerIdle
    /\ KillIdle /\ GainIdle /\ FollowIdle /\ CondIdle
    /\ WalkIdle /\ AttackIdle /\ MatchIdle /\ TimerIdle /\ NpcIdle /\ EventIdle
    /\ lastOp = [op |-> "init"]

NextCache ==
    \/ onCreatureAppear
    \/ \E t \in Tiles, teleport \in BOOLEAN : onCreatureMove(Pos(t[1], t[2]), teleport)

SpecCache == InitCache /\ [][NextCache]_vars

\* C1: once the cache is loaded, after every sequence of same-floor single
\* steps (and teleports) every cell of localMapCache equals the value a full
\* rebuild (updateMapCache) computes at the entity's position.
C1_ShiftEqualsRebuild ==
    isMapLoaded => localMapCache = updateMapCache(position)

-----------------------------------------------------------------------------
(***************************************************************************)
(* SpecOwner: any sequence of setMaster calls among the entities: setting, *)
(* re-parenting and clearing (newMaster = None).                           *)
(***************************************************************************)
InitOwner ==
    /\ OwnerIdle /\ CacheIdle /\ BlockIdle /\ LedgerIdle
    /\ KillIdle /\ GainIdle /\ FollowIdle /\ CondIdle
    /\ WalkIdle /\ AttackIdle /\ MatchIdle /\ TimerIdle /\ NpcIdle /\ EventIdle
    /\ lastOp = [op |-> "init"]

NextOwner ==
    \E c \in Creatures, newMaster \in Creatures \cup {None} : setMaster(c, newMaster)

SpecOwner == InitOwner /\ [][NextOwner]_vars

\* C3: for every pair of entities x and m, x's master reference is m if and
\* only if x occurs in m's summon list, and x never occurs there twice.
C3_MasterSummonConsistent ==
    \A x \in Creatures, m \in Creatures :
        /\ (master[x] = m) <=> (Count(summons[m], x) >= 1)
        /\ Count(summons[m], x) <= 1

\* C3 witness: an entity has been re-parented from one master to another,
\* whose summon list holds it beside another summon.
C3_Witness ==
    /\ lastOp.op = "setMaster"
    /\ lastOp.oldMaster # None
    /\ lastOp.newMaster # None
    /\ lastOp.newMaster # lastOp.oldMaster
    /\ Len(summons[lastOp.newMaster]) = 2
    /\ master[lastOp.self] = lastOp.newMaster

\* no entity is reached from itself by following master references
Acyclic == \A x \in Creatures : x \notin Ancestors(master, x)

\* C4 as stated: in every state reached by setMaster calls the code accepts,
\* no entity is its own ancestor in the master chain.
C4_NoCycleAnyCalls == Acyclic

\* C4 as amended: as long as no setMaster call gave an entity itself or one
\* of its own descendants as master, no entity is its own ancestor.
C4_NoCycleUnlessUpward == (~upward) => Acyclic

\* C4 witness: a master chain of depth 2 built by calls that never attach upward.
C4_Witness ==
    /\ ~upward
    /\ \E x \in Creatures : Cardinality(Ancestors(master, x)) = 2

-----------------------------------------------------------------------------
(***************************************************************************)
(* Damage ledger: Creature::damageMap and Creature::lastHitCreatureId.     *)
(***************************************************************************)
NumAttackers == 2   \* the attacker ids are 1..NumAttackers
MaxPoints == 2      \* addDamagePoints is called with -1..MaxPoints
MaxTotal == 3       \* no ledger entry grows beyond this total
MaxTime == 2        \* OTSYS_TIME() runs over 0..MaxTime
InFightTicks == 1   \* g_config.getNumber(ConfigManager::PZ_LOCKED)

Attackers == 1..NumAttackers
\* the entity that owns the ledger: the one with the least id
Self == CHOOSE c \in Creatures : \A d \in Creatures : c <= d

\* sum of f[k] over the keys in ks
RECURSIVE SumOver(_, _)
SumOver(f, ks) ==
    IF ks = {} THEN 0
    ELSE LET k == CHOOSE x \in ks : TRUE IN f[k] + SumOver(f, ks \ {k})

\* an addDamagePoints that overwrites the total instead of adding to it
AddDamagePointsOverwrite(dm, lastHit, attackerId, damagePoints, timeNow) ==
    IF damagePoints <= 0
    THEN [damageMap |-> dm, lastHitCreatureId |-> lastHit]
    ELSE [damageMap |->
            [id \in DOMAIN dm \cup {attackerId} |->
                IF id = attackerId
                THEN [total |-> damagePoints, ticks |-> timeNow]
                ELSE dm[id]],
          lastHitCreatureId |-> attackerId]

\* Creature::addDamagePoints(attacker, damagePoints) at time timeNow: the
\* ledger and the last-hitter id afterwards (damageMap[attackerId] creates a
\* zero entry when the attacker has none)
AddDamagePointsResult(dm, lastHit, attackerId, damagePoints, timeNow) ==
    IF damagePoints <= 0
    THEN [damageMap |-> dm, lastHitCreatureId |-> lastHit]
    ELSE LET cb == IF attackerId \in DOMAIN dm THEN dm[attackerId]
                   ELSE [total |-> 0, ticks |-> 0]
         IN [damageMap |->
               [id \in DOMAIN dm \cup {attackerId} |->
                   IF id = attackerId
                   THEN [total |-> cb.total + damagePoints, ticks |-> timeNow]
                   ELSE dm[id]],
             lastHitCreatureId |-> attackerId]

\* a getDamageRatio whose total counts only the entries within the
\* combat-lock window
GetDamageRatioWindowedTotal(dm, attackerId, timeNow) ==
    LET inWindow == {id \in DOMAIN dm : timeNow - dm[id].ticks <= InFightTicks}
        totalDamage == SumOver([id \in DOMAIN dm |-> dm[id].total], inWindow)
        attackerDamage == SumOver([id \in DOMAIN dm |-> dm[id].total], DOMAIN dm \cap {attackerId})
    IN [attackerDamage |-> IF totalDamage = 0 THEN 0 ELSE attackerDamage,
        totalDamage |-> totalDamage]

\* Creature::getDamageRatio(attacker): the numerator and the denominator of
\* the ratio returned (0 when totalDamage is 0); timeNow is not read
getDamageRatio(dm, attackerId, timeNow) ==
    LET totalDamage == SumOver([id \in DOMAIN dm |-> dm[id].total], DOMAIN dm)
        attackerDamage == SumOver([id \in DOMAIN dm |-> dm[id].total], DOMAIN dm \cap {attackerId})
    IN [attackerDamage |-> IF totalDamage = 0 THEN 0 ELSE attackerDamage,
        totalDamage |-> totalDamage]

-----------------------------------------------------------------------------
(***************************************************************************)
(* IEEE-754 binary64 arithmetic on small operands.  A positive double is   *)
(* the record [bits, frac]: bits is its significand as a bit string, most  *)
(* significant bit first, and its value is that binary number divided by   *)
(* 2^frac.  Zero has the empty bit string.                                 *)
(***************************************************************************)
MantissaBits == 53   \* the significand of a double

Front(bits) == SubSeq(bits, 1, Len(bits) - 1)

\* the binary digits of the natural number n
RECURSIVE NatBits(_)
NatBits(n) == IF n = 0 THEN <<>> ELSE Append(NatBits(n \div 2), n % 2)

\* the natural number with the binary digits bits
RECURSIVE BitsNat(_)
BitsNat(bits) ==
    IF bits = <<>> THEN 0 ELSE 2 * BitsNat(Front(bits)) + bits[Len(bits)]

\* 2^n
RECURSIVE Pow2(_)
Pow2(n) == IF n = 0 THEN 1 ELSE 2 * Pow2(n - 1)

\* 2^n modulo t
RECURSIVE PowMod2(_, _)
PowMod2(n, t) ==
    IF n = 0 THEN 1 % t
    ELSE LET h == PowMod2(n \div 2, t)
         IN (((h * h) % t) * (IF n % 2 = 1 THEN 2 ELSE 1)) % t

\* bits + 1
PlusOne(bits) ==
    LET zeros == {i \in 1..Len(bits) : bits[i] = 0}
    IN IF zeros = {} THEN <<1>> \o [i \in 1..Len(bits) |-> 0]
       ELSE LET k == CHOOSE i \in zeros : \A j \in zeros : j <= i
            IN [i \in 1..Len(bits) |->
                   IF i < k THEN bits[i] ELSE IF i = k THEN 1 ELSE 0]

\* bits without its leading zeros
StripZeros(bits) ==
    LET ones == {i \in 1..Len(bits) : bits[i] = 1}
    IN IF ones = {} THEN <<>>
       ELSE SubSeq(bits, CHOOSE i \in ones : \A j \in ones : i <= j, Len(bits))

\* round to nearest, ties to even: the bit string cut to MantissaBits bits;
\* sticky tells that the exact value has non-zero digits beyond bits
RoundNearestEven(bits, sticky) ==
    IF Len(bits) <= MantissaBits THEN [bits |-> bits, dropped |-> 0]
    ELSE LET keep == SubSeq(bits, 1, MantissaBits)
             half == bits[MantissaBits + 1] = 1
             rest == sticky \/ \E i \in (MantissaBits + 2)..Len(bits) : bits[i] = 1
             up == half /\ (rest \/ keep[MantissaBits] = 1)
         IN [bits |-> IF up THEN PlusOne(keep) ELSE keep,
             dropped |-> Len(bits) - MantissaBits]

\* long division: the i-th binary digit after the point of r / t, 0 <= r < t
\* (the remainder after i digits is r * 2^i modulo t)
FractionBit(r, t, i) ==
    IF 2 * ((r * PowMod2(i - 1, t)) % t) >= t THEN 1 ELSE 0

\* the number of zero digits that follow the binary point of r / t, 0 < r < t
LeadingZeros(r, t) ==
    CHOOSE z \in 0..t : /\ FractionBit(r, t, z + 1) = 1
                        /\ \A j \in 1..z : FractionBit(r, t, j) = 0

\* static_cast<double>(a) / t for naturals a and t > 0
DoubleDiv(a, t) ==
    IF a = 0 THEN [bits |-> <<>>, frac |-> 0]
    ELSE LET q == a \div t
             r == a % t
             z == IF q = 0 THEN LeadingZeros(r, t) ELSE 0
             n == MantissaBits + 1
             digits == [i \in 1..n |-> FractionBit(r, t, z + i)]
             rem == (r * PowMod2(z + n, t)) % t
             x == RoundNearestEven(NatBits(q) \o digits, rem # 0)
         IN [bits |-> x.bits, frac |-> z + n - x.dropped]

\* a significand is multiplied in pieces of Limb bits, which keeps every
\* intermediate value within 32 bits
Limb == MantissaBits \div 4

\* the j-th piece of bits, counted from the least significant end
LimbOf(bits, j) ==
    BitsNat(SubSeq(bits, Max(1, Len(bits) - j * Limb + 1), Len(bits) - (j - 1) * Limb))

\* the Limb binary digits of v < 2^Limb
LimbDigits(v) == [i \in 1..Limb |-> (v \div Pow2(Limb - i)) % 2]

\* the pieces j and above of bits, times the natural number n, plus carry
RECURSIVE MulLimbs(_, _, _, _)
MulLimbs(bits, n, j, carry) ==
    IF (j - 1) * Limb >= Len(bits) THEN NatBits(carry)
    ELSE LET s == LimbOf(bits, j) * n + carry
         IN MulLimbs(bits, n, j + 1, s \div Pow2(Limb)) \o LimbDigits(s % Pow2(Limb))

\* bits times the natural number n
MulSmall(bits, n) == StripZeros(MulLimbs(bits, n, 1, 0))

\* the double x times the natural number n (converted to double exactly)
DoubleMul(x, n) ==
    IF x.bits = <<>> \/ n = 0 THEN [bits |-> <<>>, frac |-> 0]
    ELSE LET p == RoundNearestEven(MulSmall(x.bits, n), FALSE)
         IN [bits |-> p.bits, frac |-> x.frac - p.dropped]

\* std::floor of the double x >= 0, as a natural number
DoubleFloor(x) ==
    IF x.frac <= 0 THEN BitsNat(x.bits) * Pow2(0 - x.frac)
    ELSE IF Len(x.bits) <= x.frac THEN 0
    ELSE BitsNat(SubSeq(x.bits, 1, Len(x.bits) - x.frac))

\* a getGainedExperience that rounds the share up
GetGainedExperienceRoundedUp(dm, attackerId, timeNow, lostExp) ==
    LET r == getDamageRatio(dm, attackerId, timeNow)
    IN IF r.totalDamage = 0 THEN 0
       ELSE DoubleFloor(DoubleMul(DoubleDiv(r.attackerDamage, r.totalDamage), lostExp)) + 1

\* Creature::getGainedExperience(attacker) when getLostExperience() is lostExp
getGainedExperience(dm, attackerId, timeNow, lostExp) ==
    LET r == getDamageRatio(dm, attackerId, timeNow)
    IN IF r.totalDamage = 0 THEN 0
       ELSE DoubleFloor(DoubleMul(DoubleDiv(r.attackerDamage, r.totalDamage), lostExp))

\* the least element of a set of ids: std::map iterates in ascending key order
MinOf(S) == CHOOSE x \in S : \A y \in S : x <= y

\* the loop of Creature::onDeath over the ledger entries ids that are left:
\* env holds the dying entity, its ledger, the time, the entities that
\* g_game.getCreatureByID finds, the party leaders and the lost experience
RECURSIVE ScanDamageMap(_, _, _)
ScanDamageMap(env, ids, acc) ==
    IF ids = {} THEN acc
    ELSE LET id == MinOf(ids)
             cb == env.damageMap[id]
             most == IF /\ cb.total > acc.mostDamage
                        /\ env.timeNow - cb.ticks <= InFightTicks
                     THEN [acc EXCEPT !.mostDamage = cb.total, !.mostDamageCreature = id]
                     ELSE acc
             gainExp == getGainedExperience(env.damageMap, id, env.timeNow, env.lostExperience)
             attacker == IF env.leader[id] # None THEN env.leader[id] ELSE id
             em == most.experienceMap
             paid == [most EXCEPT !.experienceMap =
                        [k \in DOMAIN em \cup {attacker} |->
                            (IF k \in DOMAIN em THEN em[k] ELSE 0)
                              + (IF k = attacker THEN gainExp ELSE 0)]]
         IN ScanDamageMap(env, ids \ {id},
                          IF id \notin env.inGame THEN acc
                          ELSE IF id = env.self THEN most
                          ELSE paid)

\* the attribution part of Creature::onDeath
OnDeathAttribution(env) ==
    LET acc == ScanDamageMap(env, DOMAIN env.damageMap,
                             [mostDamage |-> 0, mostDamageCreature |-> None,
                              experienceMap |-> <<>>])
    IN [mostDamageCreature |-> acc.mostDamageCreature, experienceMap |-> acc.experienceMap]

-----------------------------------------------------------------------------
(***************************************************************************)
(* Health and death resolution.                                            *)
(***************************************************************************)
ExecuteDeathTask(c) == [task |-> "executeDeath", id |-> c]

\* Creature::changeHealth: the health afterwards
ChangedHealth(h, healthChange) ==
    IF healthChange > 0
    THEN h + Min(healthChange, MaxHealth - h)
    ELSE Max(0, h + healthChange)

\* Creature::onDeath for entity c: the kill is attributed from c's ledger
\* (the model keeps the ledger of Self; the others' are empty), the master
\* link is severed and, a corpse or effect having been produced (dropCorpse
\* returns true), the entity's removal from the world is requested
onDeath(c) ==
    LET r == IF master[c] # None
             THEN SetMasterResult(master, summons, c, None)
             ELSE [master |-> master, summons |-> summons, ret |-> FALSE]
        env == [self |-> c,
                damageMap |-> IF c = Self THEN damageMap ELSE <<>>,
                timeNow |-> now,
                inGame |-> Creatures \ removed,
                leader |-> sharedLeader,
                lostExperience |-> lostExperience]
    IN /\ deathResult' = OnDeathAttribution(env)
       /\ master' = r.master
       /\ summons' = r.summons
       /\ deathCount' = [deathCount EXCEPT ![c] = @ + 1]
       /\ removed' = removed \cup {c}

\* a changeHealth that resolves the death on the calling stack
changeHealthInline(c, healthChange) ==
    LET h == ChangedHealth(health[c], healthChange) IN
    /\ c \notin removed
    /\ Len(dispatcher) < MaxQueue
    /\ health' = [health EXCEPT ![c] = h]
    /\ IF h <= 0
       THEN onDeath(c) /\ UNCHANGED dispatcher
       ELSE UNCHANGED <<master, summons, deathCount, removed, dispatcher, deathResult>>
    /\ lastOp' = [op |-> "changeHealth", self |-> c, healthChange |-> healthChange,
                  oldHealth |-> health[c]]
    /\ UNCHANGED upward
    /\ UNCHANGED <<cacheVars, blockVars, ledgerVars, killVars, gainVars, followVars, condVars, walkVars, attackVars, matchVars, timerVars, npcVars, eventVars>>

\* Creature::changeHealth(healthChange) called on c
changeHealth(c, healthChange) ==
    LET h == ChangedHealth(health[c], healthChange) IN
    /\ c \notin removed
    /\ Len(dispatcher) < MaxQueue
    /\ health' = [health EXCEPT ![c] = h]
    /\ dispatcher' = IF h <= 0 THEN Append(dispatcher, ExecuteDeathTask(c)) ELSE dispatcher
    /\ lastOp' = [op |-> "changeHealth", self |-> c, healthChange |-> healthChange,
                  oldHealth |-> health[c]]
    /\ UNCHANGED <<master, summons, removed, deathCount, upward, deathResult>>
    /\ UNCHANGED <<cacheVars, blockVars, ledgerVars, killVars, gainVars, followVars, condVars, walkVars, attackVars, matchVars, timerVars, npcVars, eventVars>>

\* the dispatcher runs the task at the front of the asynchronous queue:
\* Game::executeDeath(id) calls onDeath unless the entity is gone
executeDeath ==
    /\ dispatcher # <<>>
    /\ LET c == Head(dispatcher).id IN
       /\ dispatcher' = Tail(dispatcher)
       /\ IF c \notin removed
          THEN onDeath(c)
          ELSE UNCHANGED <<master, summons, deathCount, removed, deathResult>>
       /\ lastOp' = [op |-> "executeDeath", self |-> c, ran |-> (c \notin removed),
                     hadMaster |-> (master[c] # None)]
    /\ UNCHANGED <<health, upward>>
    /\ UNCHANGED <<cacheVars, blockVars, ledgerVars, killVars, gainVars, followVars, condVars, walkVars, attackVars, matchVars, timerVars, npcVars, eventVars>>

-----------------------------------------------------------------------------
(***************************************************************************)
(* SpecDeath: entities in a master/summon forest built by setMaster take   *)
(* health changes; the dispatcher runs the queued death resolutions.       *)
(***************************************************************************)
\* the summons of m in a graph, in ascending order of id
RECURSIVE SummonsOf(_, _, _)
SummonsOf(ms, m, c) ==
    IF c > NumCreatures THEN <<>>
    ELSE IF ms[c] = m THEN <<c>> \o SummonsOf(ms, m, c + 1)
    ELSE SummonsOf(ms, m, c + 1)

InitDeath ==
    /\ master \in {ms \in [Creatures -> Creatures \cup {None}] :
                      \A c \in Creatures : ms[c] = None \/ ms[c] > c}
    /\ summons = [m \in Creatures |-> SummonsOf(master, m, 1)]
    /\ health = [c \in Creatures |-> MaxHealth]
    /\ removed = {}
    /\ dispatcher = <<>>
    /\ deathCount = [c \in Creatures |-> 0]
    /\ upward = FALSE
    /\ deathResult = NoDeathResult
    /\ CacheIdle /\ BlockIdle /\ LedgerIdle
    /\ KillIdle /\ GainIdle /\ FollowIdle /\ CondIdle
    /\ WalkIdle /\ AttackIdle /\ MatchIdle /\ TimerIdle /\ NpcIdle /\ EventIdle
    /\ lastOp = [op |-> "init"]

NextDeath ==
    \/ \E c \in Mortals, healthChange \in (-MaxHealth)..MaxHealth : changeHealth(c, healthChange)
    \/ executeDeath

SpecDeath == InitDeath /\ [][NextDeath]_vars

\* C2: a changeHealth call that brings the health to 0 does not run death
\* resolution itself (no onDeath count, no master change) but appends the
\* executeDeath task to the asynchronous queue; onDeath runs at most once
\* per entity, a dead entity whose onDeath has not run yet has its task
\* pending, and when onDeath has run the entity has no master.
C2_DeathOnceAsync ==
    [][ /\ (lastOp'.op = "changeHealth" =>
              /\ deathCount' = deathCount
              /\ master' = master /\ summons' = summons /\ removed' = removed
              /\ (health'[lastOp'.self] <= 0 =>
                    dispatcher' = Append(dispatcher, ExecuteDeathTask(lastOp'.self))))
        /\ \A c \in Creatures : deathCount'[c] <= 1
        /\ \A c \in Creatures :
              (health'[c] <= 0 /\ deathCount'[c] = 0) =>
                 \E i \in 1..Len(dispatcher') : dispatcher'[i] = ExecuteDeathTask(c)
        /\ ((lastOp'.op = "executeDeath" /\ lastOp'.ran) =>
              /\ deathCount'[lastOp'.self] = deathCount[lastOp'.self] + 1
              /\ master'[lastOp'.self] = None
              /\ (master[lastOp'.self] # None =>
                    Count(summons'[master[lastOp'.self]], lastOp'.self) = 0))
      ]_vars

\* C2 witness: an entity that had a master was brought to health 0 by
\* changeHealth(-health), and its death resolution has run from the queue.
C2_Witness ==
    /\ lastOp.op = "executeDeath"
    /\ lastOp.ran /\ lastOp.hadMaster
    /\ health[lastOp.self] = 0
    /\ deathCount[lastOp.self] = 1
    /\ master[lastOp.self] = None

-----------------------------------------------------------------------------
(***************************************************************************)
(* Hit mitigation: Creature::blockHit and the defense charges.             *)
(***************************************************************************)
MaxDamage == 2         \* incoming damages 0..MaxDamage, and the scenario's 50
MaxDefense == 6        \* getDefense() in 0..MaxDefense
MaxArmor == 4          \* getArmor() in 0..MaxArmor, and the scenario's 10
MaxBlockCount == 2     \* the cap of the defense charges
BlockTicksPeriod == 1000  \* think ticks per regenerated charge

DamageValues == (0..MaxDamage) \cup {50}
DefenseValues == 0..MaxDefense
ArmorValues == (0..MaxArmor) \cup {10}
CombatTypes == {"COMBAT_PHYSICALDAMAGE", "COMBAT_FIREDAMAGE"}
ThinkIntervals == {BlockTicksPeriod \div 2, BlockTicksPeriod}

\* Creature::isImmune(CombatType_t): the type's bit is set in getDamageImmunities()
isImmune(combatType, damageImmunities) == combatType \in damageImmunities

\* a defense draw that may give any value up to the defense
DefenseRollsFromZero(defense) == 0..defense

\* uniform_random(defense / 2, defense): the values the draw can give
DefenseRolls(defense) == (defense \div 2)..defense

\* an armor draw that may take the whole armor value
ArmorRollsWhole(armor) ==
    IF armor > 3 THEN (armor \div 2)..armor ELSE {0}

\* uniform_random(armor / 2, armor - (armor % 2 + 1)) for armor > 3: the
\* values the draw can give (no draw is made for armor <= 3)
ArmorRolls(armor) ==
    IF armor > 3 THEN (armor \div 2)..(armor - ((armor % 2) + 1)) ELSE {0}

\* Creature::blockHit up to, and without, its closing "if (damage <= 0)":
\* rawDamage is the damage at that point
BlockHitMitigation(tg, cl, charges, defRoll, armRoll) ==
    IF isImmune(cl.combatType, tg.damageImmunities)
    THEN [op |-> "blockHit", immune |-> TRUE, hadCharge |-> charges > 0, blockCount |-> charges,
          defenseSub |-> 0, armorSub |-> 0, defenseUsed |-> FALSE, armorChecked |-> FALSE,
          onBlockHit |-> FALSE, rawDamage |-> 0, damage |-> 0, blockType |-> "BLOCK_IMMUNITY"]
    ELSE IF cl.checkDefense \/ cl.checkArmor
    THEN LET hasDefense == charges > 0
             defenseUsed == cl.checkDefense /\ hasDefense /\ tg.canUseDefense
             d1 == IF defenseUsed THEN cl.damage - defRoll ELSE cl.damage
             zeroed == defenseUsed /\ d1 <= 0
             d2 == IF zeroed THEN 0 ELSE d1
             armorChecked == cl.checkArmor /\ ~zeroed
             armorSub == IF ~armorChecked THEN 0
                         ELSE IF tg.armor > 3 THEN armRoll
                         ELSE IF tg.armor > 0 THEN 1
                         ELSE 0
             d3 == d2 - armorSub
             d4 == IF armorChecked /\ d3 <= 0 THEN 0 ELSE d3
             b == IF armorChecked /\ d3 <= 0 THEN "BLOCK_ARMOR"
                  ELSE IF zeroed THEN "BLOCK_DEFENSE"
                  ELSE "BLOCK_NONE"
         IN [op |-> "blockHit", immune |-> FALSE, hadCharge |-> hasDefense,
             blockCount |-> IF hasDefense THEN charges - 1 ELSE charges,
             defenseSub |-> IF defenseUsed THEN defRoll ELSE 0, armorSub |-> armorSub,
             defenseUsed |-> defenseUsed, armorChecked |-> armorChecked,
             onBlockHit |-> (hasDefense /\ b # "BLOCK_NONE"),
             rawDamage |-> d4, damage |-> d4, blockType |-> b]
    ELSE [op |-> "blockHit", immune |-> FALSE, hadCharge |-> charges > 0, blockCount |-> charges,
          defenseSub |-> 0, armorSub |-> 0, defenseUsed |-> FALSE, armorChecked |-> FALSE,
          onBlockHit |-> FALSE, rawDamage |-> cl.damage, damage |-> cl.damage,
          blockType |-> "BLOCK_NONE"]

\* a blockHit that lacks the closing "if (damage <= 0)"
BlockHitClosingSkipped(tg, cl, charges, defRoll, armRoll) ==
    BlockHitMitigation(tg, cl, charges, defRoll, armRoll)

\* a blockHit that finds a defense charge whatever the counter holds
BlockHitChargeFree(tg, cl, charges, defRoll, armRoll) ==
    LET r == BlockHitMitigation(tg, cl, charges + 1, defRoll, armRoll) IN
    IF r.rawDamage <= 0
    THEN [r EXCEPT !.damage = 0, !.blockType = "BLOCK_ARMOR"]
    ELSE r

\* Creature::blockHit on a target of kind tg holding `charges` defense
\* charges, called with the arguments cl; defRoll and armRoll are the values
\* of the two uniform_random draws.  rawDamage and the block type set before
\* the closing "if (damage <= 0)" are kept beside the values returned.
BlockHitResult(tg, cl, charges, defRoll, armRoll) ==
    LET r == BlockHitMitigation(tg, cl, charges, defRoll, armRoll) IN
    IF r.rawDamage <= 0
    THEN [r EXCEPT !.damage = 0, !.blockType = "BLOCK_ARMOR"]
    ELSE r

\* Creature::blockHit as an operation of the program
blockHit ==
    \E defRoll \in (IF call.checkDefense /\ blockCount > 0 /\ target.canUseDefense
                       /\ ~isImmune(call.combatType, target.damageImmunities)
                    THEN DefenseRolls(target.defense) ELSE {0}) :
      \E armRoll \in (IF call.checkArmor /\ ~isImmune(call.combatType, target.damageImmunities)
                      THEN ArmorRolls(target.armor) ELSE {0}) :
        LET r == BlockHitResult(target, call, blockCount, defRoll, armRoll) IN
        /\ hit' = r
        /\ blockCount' = r.blockCount
        /\ lastOp' = [op |-> "blockHit"]
        /\ UNCHANGED <<blockTicks, target, call>>
        /\ UNCHANGED <<cacheVars, ownerVars, ledgerVars, killVars, gainVars, followVars, condVars, walkVars, attackVars, matchVars, timerVars, npcVars, eventVars>>

\* Creature::onThink(interval): the defense charges regenerate
onThinkBlock(interval) ==
    /\ IF blockTicks + interval >= BlockTicksPeriod
       THEN /\ blockCount' = Min(blockCount + 1, MaxBlockCount)
            /\ blockTicks' = 0
       ELSE /\ blockTicks' = blockTicks + interval
            /\ UNCHANGED blockCount
    /\ lastOp' = [op |-> "onThink", interval |-> interval]
    /\ UNCHANGED <<target, call, hit>>
    /\ UNCHANGED <<cacheVars, ownerVars, ledgerVars, killVars, gainVars, followVars, condVars, walkVars, attackVars, matchVars, timerVars, npcVars, eventVars>>

-----------------------------------------------------------------------------
(***************************************************************************)
(* SpecBlock: a target of some kind is hit with some arguments, any number *)
(* of times, while its think passes regenerate the defense charges.        *)
(***************************************************************************)
InitBlock ==
    /\ blockCount = 0
    /\ blockTicks = 0
    /\ target \in [defense : DefenseValues, armor : ArmorValues, canUseDefense : BOOLEAN,
                   damageImmunities : {{}, {"COMBAT_FIREDAMAGE"}}]
    /\ call \in [combatType : CombatTypes, damage : DamageValues,
                 checkDefense : BOOLEAN, checkArmor : BOOLEAN]
    /\ hit = [op |-> "none"]
    /\ CacheIdle /\ OwnerIdle /\ LedgerIdle
    /\ KillIdle /\ GainIdle /\ FollowIdle /\ CondIdle
    /\ WalkIdle /\ AttackIdle /\ MatchIdle /\ TimerIdle /\ NpcIdle /\ EventIdle
    /\ lastOp = [op |-> "init"]

NextBlock ==
    \/ blockHit
    \/ \E interval \in ThinkIntervals : onThinkBlock(interval)

SpecBlock == InitBlock /\ [][NextBlock]_vars

\* C5: blockHit on a target immune to the combat type sets the damage to 0
\* and returns BLOCK_IMMUNITY, whatever the damage and the two check flags.
C5_ImmuneReturnsImmunity ==
    (hit.op = "blockHit" /\ isImmune(call.combatType, target.damageImmunities)) =>
        (hit.damage = 0 /\ hit.blockType = "BLOCK_IMMUNITY")

\* C6: blockHit with checkDefense = false and checkArmor = false returns no
\* classification other than none or immunity and, on a target that is not
\* immune, a damage not below the incoming one.
C6_NoChecksNoMitigation ==
    (hit.op = "blockHit" /\ ~call.checkDefense /\ ~call.checkArmor) =>
        /\ hit.blockType \in {"BLOCK_NONE", "BLOCK_IMMUNITY"}
        /\ (~isImmune(call.combatType, target.damageImmunities) => hit.damage >= call.damage)

\* C7: on a target that is not immune, a blockHit whose mitigation ends with
\* a damage of 0 or less returns damage 0 and BLOCK_ARMOR, also when the
\* defense draw alone brought the damage to 0 and the armor check was skipped.
C7_ZeroDamageIsArmor ==
    (hit.op = "blockHit" /\ ~hit.immune /\ hit.rawDamage <= 0) =>
        (hit.damage = 0 /\ hit.blockType = "BLOCK_ARMOR")

\* C7 witness: the defense draw brought the damage to 0, the requested armor
\* check was skipped, and the hit is returned as armor-blocked.
C7_Witness ==
    /\ hit.op = "blockHit"
    /\ ~hit.immune
    /\ hit.defenseUsed /\ hit.defenseSub >= call.damage /\ call.damage > 0
    /\ call.checkArmor /\ ~hit.armorChecked
    /\ hit.damage = 0 /\ hit.blockType = "BLOCK_ARMOR"

\* the scenario of C8: armor 10, damage 50, both checks, a charge available
C8_Scenario ==
    /\ hit.op = "blockHit"
    /\ ~hit.immune
    /\ target.armor = 10
    /\ call.damage = 50
    /\ call.checkDefense /\ call.checkArmor
    /\ hit.hadCharge

\* C8 as stated: in the scenario the returned damage lies within [36, 45]
\* for every defense value and every outcome of the two draws.
C8_ScenarioWithin36And45 ==
    C8_Scenario => (36 <= hit.damage /\ hit.damage <= 45)

\* C8 as amended: in the scenario the returned damage lies within
\* [50 - defense - 9, 50 - defense/2 - 5] (not below 0) when the target can
\* use its defense, and within [41, 45] when it cannot.
C8_ScenarioBounds ==
    C8_Scenario =>
        IF target.canUseDefense
        THEN /\ Max(0, 50 - target.defense - 9) <= hit.damage
             /\ hit.damage <= Max(0, 50 - (target.defense \div 2) - 5)
        ELSE 41 <= hit.damage /\ hit.damage <= 45

\* C8 witness: the scenario with a defense of 6, where both draws took
\* their largest value and the damage fell to 35.
C8_Witness ==
    /\ C8_Scenario
    /\ target.canUseDefense /\ target.defense = 6
    /\ hit.defenseSub = 6 /\ hit.armorSub = 9
    /\ hit.damage = 35

-----------------------------------------------------------------------------
(***************************************************************************)
(* The operations on the damage ledger.                                    *)
(***************************************************************************)
\* Creature::addDamagePoints as an operation of the program
addDamagePoints(attackerId, damagePoints) ==
    LET r == AddDamagePointsResult(damageMap, lastHitCreatureId, attackerId, damagePoints, now) IN
    /\ \A id \in DOMAIN r.damageMap : r.damageMap[id].total <= MaxTotal
    /\ damageMap' = r.damageMap
    /\ lastHitCreatureId' = r.lastHitCreatureId
    /\ lastOp' = [op |-> "addDamagePoints", attacker |-> attackerId, damagePoints |-> damagePoints]
    /\ UNCHANGED now
    /\ UNCHANGED <<cacheVars, ownerVars, blockVars, killVars, gainVars, followVars, condVars, walkVars, attackVars, matchVars, timerVars, npcVars, eventVars>>

\* Creature::onIdleStatus: a living entity forgets its ledger
onIdleStatus ==
    /\ IF health[Self] > 0
       THEN damageMap' = <<>> /\ lastHitCreatureId' = None
       ELSE UNCHANGED <<damageMap, lastHitCreatureId>>
    /\ lastOp' = [op |-> "onIdleStatus"]
    /\ UNCHANGED now
    /\ UNCHANGED <<cacheVars, ownerVars, blockVars, killVars, gainVars, followVars, condVars, walkVars, attackVars, matchVars, timerVars, npcVars, eventVars>>

\* time passes
Tick ==
    /\ now < MaxTime
    /\ now' = now + 1
    /\ lastOp' = [op |-> "Tick"]
    /\ UNCHANGED <<damageMap, lastHitCreatureId>>
    /\ UNCHANGED <<cacheVars, ownerVars, blockVars, killVars, gainVars, followVars, condVars, walkVars, attackVars, matchVars, timerVars, npcVars, eventVars>>

-----------------------------------------------------------------------------
(***************************************************************************)
(* SpecLedger: attackers deal damage to one entity while time passes.      *)
(***************************************************************************)
InitLedger ==
    /\ LedgerIdle /\ CacheIdle /\ OwnerIdle /\ BlockIdle
    /\ KillIdle /\ GainIdle /\ FollowIdle /\ CondIdle
    /\ WalkIdle /\ AttackIdle /\ MatchIdle /\ TimerIdle /\ NpcIdle /\ EventIdle
    /\ lastOp = [op |-> "init"]

NextLedger ==
    \/ \E a \in Attackers, p \in (-1)..MaxPoints : addDamagePoints(a, p)
    \/ onIdleStatus
    \/ Tick

SpecLedger == InitLedger /\ [][NextLedger]_vars

\* C9: addDamagePoints with an amount <= 0 leaves the ledger and the
\* last-hitter id unchanged; with an amount > 0 it adds the amount to the
\* attacker's total (from 0 if it had no entry), sets that entry's timestamp
\* to the current time, makes the attacker the last hitter and leaves every
\* other entry as it was.
C9_AddDamagePointsFrame ==
    [][ lastOp'.op = "addDamagePoints" =>
          LET a == lastOp'.attacker
              p == lastOp'.damagePoints
          IN IF p <= 0
             THEN damageMap' = damageMap /\ lastHitCreatureId' = lastHitCreatureId
             ELSE /\ DOMAIN damageMap' = DOMAIN damageMap \cup {a}
                  /\ damageMap'[a].total =
                       (IF a \in DOMAIN damageMap THEN damageMap[a].total ELSE 0) + p
                  /\ damageMap'[a].ticks = now
                  /\ lastHitCreatureId' = a
                  /\ \A b \in DOMAIN damageMap \ {a} : damageMap'[b] = damageMap[b]
      ]_vars

\* C9 witness: an attacker that already had an older entry hit again, beside
\* another attacker's entry, and its total is the sum of its hits.
C9_Witness ==
    /\ lastOp.op = "addDamagePoints"
    /\ lastOp.damagePoints > 0
    /\ DOMAIN damageMap = Attackers
    /\ damageMap[lastOp.attacker].total > lastOp.damagePoints
    /\ damageMap[lastOp.attacker].ticks = now
    /\ \E b \in DOMAIN damageMap : damageMap[b].ticks < now

\* C10: for a non-empty ledger the attackers' damages that getDamageRatio
\* uses as numerators add up to the total it uses as denominator, which is
\* not 0: the ratios of all attackers in the ledger sum to 1.
C10_RatiosSumToOne ==
    (DOMAIN damageMap # {}) =>
        LET ratio == [id \in DOMAIN damageMap |-> getDamageRatio(damageMap, id, now)]
        IN /\ \A id \in DOMAIN damageMap : ratio[id].totalDamage > 0
           /\ \A id \in DOMAIN damageMap :
                 SumOver([k \in DOMAIN damageMap |-> ratio[k].attackerDamage], DOMAIN damageMap)
                    = ratio[id].totalDamage

\* C10 witness: a ledger of two attackers with different totals, one of them
\* outside the combat-lock window.
C10_Witness ==
    /\ Cardinality(DOMAIN damageMap) = 2
    /\ \E a, b \in DOMAIN damageMap :
          /\ damageMap[a].total < damageMap[b].total
          /\ now - damageMap[a].ticks > InFightTicks
          /\ now - damageMap[b].ticks <= InFightTicks

-----------------------------------------------------------------------------
(***************************************************************************)
(* SpecKill: an entity whose health reached 0 holds a ledger that its      *)
(* attackers filled; the dispatcher runs its death resolution.             *)
(***************************************************************************)
KillTotals == {1, 30, 70}
LostExperienceValues == {90, 100}

\* no attacker is in a party that shares experience
NoParty == [c \in Creatures |-> None]
\* the attacker with the greatest id is in a party led by the one before it
OneParty == [c \in Creatures |-> IF c = NumCreatures THEN NumCreatures - 1 ELSE None]

InitKill ==
    /\ damageMap \in UNION {[D -> [total : KillTotals, ticks : 0..MaxTime]] :
                               D \in SUBSET Creatures}
    /\ now = MaxTime
    /\ lastHitCreatureId =
          IF DOMAIN damageMap = {} THEN None
          ELSE CHOOSE a \in DOMAIN damageMap :
                  \A b \in DOMAIN damageMap : damageMap[b].ticks <= damageMap[a].ticks
    /\ lostExperience \in LostExperienceValues
    /\ removed \in {{}} \cup {{c} : c \in Creatures \ {Self}}
    /\ sharedLeader \in {sl \in {NoParty, OneParty} :
                            \A c \in Creatures : sl[c] \notin removed}
    /\ master = [c \in Creatures |-> None]
    /\ summons = [c \in Creatures |-> <<>>]
    /\ health = [c \in Creatures |-> IF c = Self THEN 0 ELSE MaxHealth]
    /\ dispatcher = <<ExecuteDeathTask(Self)>>
    /\ deathCount = [c \in Creatures |-> 0]
    /\ upward = FALSE
    /\ deathResult = NoDeathResult
    /\ CacheIdle /\ BlockIdle
    /\ GainIdle /\ FollowIdle /\ CondIdle
    /\ WalkIdle /\ AttackIdle /\ MatchIdle /\ TimerIdle /\ NpcIdle /\ EventIdle
    /\ lastOp = [op |-> "init"]

NextKill ==
    \/ executeDeath

SpecKill == InitKill /\ [][NextKill]_vars

\* the ledger attackers that were in the game when Self died
KillAttackers == DOMAIN damageMap \ (removed \ {Self})
\* those of them whose last hit lies within the combat-lock window
KillInWindow == {a \in KillAttackers : now - damageMap[a].ticks <= InFightTicks}
\* the death resolution of Self has run and no party redirected a share
KillResolved == lastOp.op = "executeDeath" /\ lastOp.ran /\ sharedLeader = NoParty

\* C11: after death resolution the most-damage attacker is an in-window
\* ledger attacker of highest cumulative damage, and the experience share of
\* each attacker is floor(attackerDamage * lostExperience / totalLedgerDamage)
\* (so 30% and 70% of the lost experience for two attackers at 30 and 70).
C11_SharesAreFloors ==
    KillResolved =>
        LET most == deathResult.mostDamageCreature
            em == deathResult.experienceMap
            totalDamage == SumOver([id \in DOMAIN damageMap |-> damageMap[id].total],
                                   DOMAIN damageMap)
        IN /\ (KillInWindow # {} =>
                 /\ most \in KillInWindow
                 /\ \A b \in KillInWindow : damageMap[b].total <= damageMap[most].total)
           /\ \A a \in KillAttackers \ {Self} :
                 /\ a \in DOMAIN em
                 /\ em[a] = (damageMap[a].total * lostExperience) \div totalDamage

\* C12: after death resolution no attacker whose last hit is older than the
\* combat-lock window is the most-damage attacker or holds an experience
\* share, although its entry is still in the ledger.
C12_StaleAttackerGetsNothing ==
    KillResolved =>
        \A a \in DOMAIN damageMap :
            (now - damageMap[a].ticks > InFightTicks) =>
                /\ deathResult.mostDamageCreature # a
                /\ (a \in DOMAIN deathResult.experienceMap =>
                       deathResult.experienceMap[a] = 0)

-----------------------------------------------------------------------------
(***************************************************************************)
(* Experience propagation: Creature::onGainExperience.  gainCall holds the *)
(* innermost call: the entity it runs on (at), its argument (gainExp), the *)
(* number of callers below it that have not returned (depth), the amount   *)
(* of the outermost call (base) and every call made so far (notified).     *)
(***************************************************************************)
MaxGainExp == 4
GainValues == (0..MaxGainExp) \cup {100}
MaxCalls == 10     \* no propagation is followed beyond this many calls

\* a hop that passes the amount on without halving it
GainHopUnhalved(ms, at, gainExp) ==
    IF gainExp = 0 \/ ms[at] = None THEN [called |-> FALSE]
    ELSE [called |-> TRUE, creature |-> ms[at], gainExp |-> gainExp]

\* a hop that does not stop at the amount 0
GainHopNoZeroTest(ms, at, gainExp) ==
    IF ms[at] = None THEN [called |-> FALSE]
    ELSE [called |-> TRUE, creature |-> ms[at], gainExp |-> gainExp \div 2]

\* Creature::onGainExperience(gainExp, target) on the entity at: the call it
\* makes on the master, if it makes one
GainHop(ms, at, gainExp) ==
    IF gainExp = 0 \/ ms[at] = None THEN [called |-> FALSE]
    ELSE [called |-> TRUE, creature |-> ms[at], gainExp |-> gainExp \div 2]

\* Creature::onDeath awards gainExp to c: it->first->onGainExperience(it->second, ...)
awardExperience(c, gainExp) ==
    /\ ~gainCall.active
    /\ gainCall' = [active |-> TRUE, returning |-> FALSE, at |-> c, gainExp |-> gainExp,
                    depth |-> 0, base |-> gainExp,
                    notified |-> <<[creature |-> c, gainExp |-> gainExp]>>]
    /\ lastOp' = [op |-> "awardExperience"]
    /\ UNCHANGED <<cacheVars, ownerVars, blockVars, ledgerVars, killVars, followVars, condVars, walkVars, attackVars, matchVars, timerVars, npcVars, eventVars>>

\* the innermost onGainExperience call runs up to its call on the master, or
\* returns at once
onGainExperience ==
    /\ gainCall.active /\ ~gainCall.returning
    /\ Len(gainCall.notified) < MaxCalls
    /\ LET hop == GainHop(master, gainCall.at, gainCall.gainExp) IN
       gainCall' = IF hop.called
                   THEN [gainCall EXCEPT !.at = hop.creature, !.gainExp = hop.gainExp,
                                         !.depth = @ + 1,
                                         !.notified = Append(@, [creature |-> hop.creature,
                                                                 gainExp |-> hop.gainExp])]
                   ELSE [gainCall EXCEPT !.returning = TRUE]
    /\ lastOp' = [op |-> "onGainExperience"]
    /\ UNCHANGED <<cacheVars, ownerVars, blockVars, ledgerVars, killVars, followVars, condVars, walkVars, attackVars, matchVars, timerVars, npcVars, eventVars>>

\* the innermost call has returned: its caller tells the spectators what it
\* gained and returns too; the outermost call ends the propagation
onGainExperienceReturn ==
    /\ gainCall.active /\ gainCall.returning
    /\ gainCall' = IF gainCall.depth = 0
                   THEN [gainCall EXCEPT !.active = FALSE, !.returning = FALSE]
                   ELSE [gainCall EXCEPT !.depth = @ - 1]
    /\ lastOp' = [op |-> "onGainExperienceReturn"]
    /\ UNCHANGED <<cacheVars, ownerVars, blockVars, ledgerVars, killVars, followVars, condVars, walkVars, attackVars, matchVars, timerVars, npcVars, eventVars>>

-----------------------------------------------------------------------------
(***************************************************************************)
(* SpecGain: experience is awarded to entities of a master graph that      *)
(* setMaster calls have built (setMaster accepts cycles).                  *)
(***************************************************************************)
InitGain ==
    /\ master \in [Creatures -> Creatures \cup {None}]
    /\ summons = [m \in Creatures |-> SummonsOf(master, m, 1)]
    /\ health = [c \in Creatures |-> MaxHealth]
    /\ removed = {}
    /\ dispatcher = <<>>
    /\ deathCount = [c \in Creatures |-> 0]
    /\ upward = \E c \in Creatures : c \in Ancestors(master, c)
    /\ deathResult = NoDeathResult
    /\ CacheIdle /\ BlockIdle /\ LedgerIdle
    /\ KillIdle /\ GainIdle /\ FollowIdle /\ CondIdle
    /\ WalkIdle /\ AttackIdle /\ MatchIdle /\ TimerIdle /\ NpcIdle /\ EventIdle
    /\ lastOp = [op |-> "init"]

NextGain ==
    \/ \E c \in Creatures, gainExp \in GainValues : awardExperience(c, gainExp)
    \/ onGainExperience
    \/ onGainExperienceReturn

SpecGain == InitGain /\ [][NextGain]_vars

\* the simulation thread runs a call to its end
SpecGainLive ==
    /\ SpecGain
    /\ WF_vars(onGainExperience)
    /\ WF_vars(onGainExperienceReturn)

\* the amounts of the calls made so far, added up
RECURSIVE NotifiedSum(_)
NotifiedSum(notified) ==
    IF notified = <<>> THEN 0
    ELSE notified[Len(notified)].gainExp + NotifiedSum(Front(notified))

\* every call but the first is made on the master of the entity of the call
\* before it, with half of that call's amount, rounded down; and when the
\* last call has returned without calling, the master of its entity (if it
\* has one) was due 0
GainHalvedEachHop ==
    LET n == gainCall.notified IN
    /\ \A i \in 1..(Len(n) - 1) :
          /\ n[i + 1].creature = master[n[i].creature]
          /\ n[i + 1].gainExp = n[i].gainExp \div 2
    /\ ((gainCall.returning \/ (~gainCall.active /\ n # <<>>)) =>
           (n[Len(n)].gainExp = 0 \/ master[n[Len(n)].creature] = None))

\* C13 as stated: each master is notified with half (floored) of its direct
\* summon's amount, and the amounts over the chain sum to strictly less than
\* 2E, for every awarded amount E.
C13_HalvedAndBelowTwiceAnyE ==
    /\ GainHalvedEachHop
    /\ (gainCall.notified # <<>> => NotifiedSum(gainCall.notified) < 2 * gainCall.base)

\* C13 amended: each master is notified with half (floored) of its direct
\* summon's amount (a master that is due 0 after a call with 0 is not called
\* at all), and the amounts over the chain sum to strictly less than 2E when
\* E > 0 and to 0 when E = 0.
C13_HalvedAndBelowTwice ==
    /\ GainHalvedEachHop
    /\ (gainCall.notified # <<>> =>
          IF gainCall.base > 0
          THEN NotifiedSum(gainCall.notified) < 2 * gainCall.base
          ELSE NotifiedSum(gainCall.notified) = 0)

\* C13 witness: a propagation of 100 has ended after more calls than there
\* are entities (the master chain is a cycle), the last of them with 0.
C13_Witness ==
    /\ ~gainCall.active
    /\ gainCall.base = 100
    /\ Len(gainCall.notified) > NumCreatures
    /\ gainCall.notified[Len(gainCall.notified)].gainExp = 0
    /\ \E i \in 1..Len(gainCall.notified) : gainCall.notified[i].gainExp = 12

\* C14: every propagation that has started ends: the innermost call reaches
\* an entity without master or the amount 0, and all calls return.
C14_PropagationTerminates ==
    gainCall.active ~> ~gainCall.active

\* C14 witness: a propagation on an entity that is its own master has ended
\* after the amount was halved down to 0.
C14_Witness ==
    /\ ~gainCall.active
    /\ gainCall.base > 0
    /\ Len(gainCall.notified) > 1
    /\ \A i \in 1..Len(gainCall.notified) :
          /\ gainCall.notified[i].creature = gainCall.notified[1].creature
          /\ master[gainCall.notified[i].creature] = gainCall.notified[i].creature
    /\ gainCall.notified[Len(gainCall.notified)].gainExp = 0

-----------------------------------------------------------------------------
(***************************************************************************)
(* setMaster seen call by call (under SpecOwner).                          *)
(***************************************************************************)
\* C15: setMaster(null) on an entity without master returns false and
\* changes nothing; every other call returns true and leaves the entity on
\* the new master's summon list (if one is given), off the old master's list
\* when the old master is a different entity, and with the new master as its
\* master reference; the same call made again leaves that state unchanged.
C15_SetMasterTwoSidedIdempotent ==
    [][ lastOp'.op = "setMaster" =>
          LET c == lastOp'.self
              newMaster == lastOp'.newMaster
              oldMaster == lastOp'.oldMaster
              again == SetMasterResult(master', summons', c, newMaster)
          IN /\ IF newMaster = None /\ oldMaster = None
                THEN /\ lastOp'.ret = FALSE
                     /\ master' = master /\ summons' = summons
                ELSE /\ lastOp'.ret = TRUE
                     /\ master'[c] = newMaster
                     /\ (newMaster # None => Count(summons'[newMaster], c) >= 1)
                     /\ ((oldMaster # None /\ oldMaster # newMaster) =>
                            Count(summons'[oldMaster], c) = 0)
             /\ again.master = master'
             /\ again.summons = summons'
      ]_vars

\* C15 witness: setMaster was called again with the master the entity
\* already had, whose summon list holds the entity behind another summon.
C15_Witness ==
    /\ lastOp.op = "setMaster"
    /\ lastOp.ret
    /\ lastOp.newMaster # None
    /\ lastOp.oldMaster = lastOp.newMaster
    /\ Len(summons[lastOp.newMaster]) = 2
    /\ summons[lastOp.newMaster][2] = lastOp.self

-----------------------------------------------------------------------------
(***************************************************************************)
(* Follow reference: Creature::followCreature of the entity Self, which is *)
(* a player or an NPC (getMonster() is null), and the positions of Self    *)
(* and of the entities it can be asked to follow.                          *)
(***************************************************************************)
FollowMaxX == 2        \* the entities stand at x in 0..FollowMaxX, y = 0
maxViewportX == 1      \* Map::maxViewportX
maxViewportY == 1      \* Map::maxViewportY

FollowFloors == {Floor - 1, Floor}
FollowPositions == {[x |-> x, y |-> 0, z |-> z] : x \in 0..FollowMaxX, z \in FollowFloors}
FollowTargets == Creatures \ {Self}

\* Position::getDistanceZ
getDistanceZ(p1, p2) == Abs(p1.z - p2.z)

\* Creature::canSee(myPos, pos, viewRangeX, viewRangeY)
canSee(myPos, pos, viewRangeX, viewRangeY) ==
    IF myPos.z <= Floor /\ pos.z > Floor THEN FALSE
    ELSE IF myPos.z >= Floor + 1 /\ (pos.z < Floor + 1 \/ getDistanceZ(myPos, pos) > 2) THEN FALSE
    ELSE LET offsetz == myPos.z - pos.z
         IN /\ pos.x >= myPos.x - viewRangeX + offsetz
            /\ pos.x <= myPos.x + viewRangeX + offsetz
            /\ pos.y >= myPos.y - viewRangeY + offsetz
            /\ pos.y <= myPos.y + viewRangeY + offsetz

\* Creature::canSee(pos) of an entity at myPos
canSeePos(myPos, pos) == canSee(myPos, pos, maxViewportX, maxViewportY)

\* a setFollowCreature that tests the view range but not the floor
SetFollowCreatureNoFloorTest(st, myPos, pos, creature) ==
    IF creature = None
    THEN [st EXCEPT !.followCreature = None, !.isUpdatingPath = FALSE, !.ret = TRUE]
    ELSE IF st.followCreature = creature THEN [st EXCEPT !.ret = TRUE]
    ELSE IF ~canSeePos(myPos, pos[creature])
    THEN [st EXCEPT !.followCreature = None, !.ret = FALSE]
    ELSE [st EXCEPT !.followCreature = creature, !.hasFollowPath = FALSE,
                    !.isUpdatingPath = TRUE, !.ret = TRUE]

\* Creature::setFollowCreature(creature) of an entity at myPos whose follow
\* state is st, the entities standing at pos: the follow state afterwards
\* and the value returned
SetFollowCreatureResult(st, myPos, pos, creature) ==
    IF creature = None
    THEN [st EXCEPT !.followCreature = None, !.isUpdatingPath = FALSE, !.ret = TRUE]
    ELSE IF st.followCreature = creature THEN [st EXCEPT !.ret = TRUE]
    ELSE IF pos[creature].z # myPos.z \/ ~canSeePos(myPos, pos[creature])
    THEN [st EXCEPT !.followCreature = None, !.ret = FALSE]
    ELSE [st EXCEPT !.followCreature = creature, !.hasFollowPath = FALSE,
                    !.isUpdatingPath = TRUE, !.ret = TRUE]

\* the follow state of Self
FollowState ==
    [followCreature |-> followCreature, hasFollowPath |-> hasFollowPath,
     isUpdatingPath |-> isUpdatingPath, ret |-> TRUE]

\* Creature::setFollowCreature(creature) called on Self
setFollowCreature(creature) ==
    LET r == SetFollowCreatureResult(FollowState, followerPos, creaturePos, creature) IN
    /\ followCreature' = r.followCreature
    /\ hasFollowPath' = r.hasFollowPath
    /\ isUpdatingPath' = r.isUpdatingPath
    /\ lastOp' = [op |-> "setFollowCreature", creature |-> creature,
                  followed |-> followCreature, ret |-> r.ret]
    /\ UNCHANGED <<followerPos, creaturePos>>
    /\ UNCHANGED <<cacheVars, ownerVars, blockVars, ledgerVars, killVars, gainVars, condVars, walkVars, attackVars, matchVars, timerVars, npcVars, eventVars>>

\* the world moves creature (Self or another entity) to newPos: the positions
\* afterwards; the move is then delivered to Self's onCreatureMove
MovedPositions(creature, newPos) ==
    [followerPos |-> IF creature = Self THEN newPos ELSE followerPos,
     creaturePos |-> IF creature = Self THEN creaturePos
                     ELSE [creaturePos EXCEPT ![creature] = newPos]]

\* Creature::onCreatureMove(creature, ..., newPos, ..., oldPos, ...) delivered
\* to Self, which does not use the perception cache, after the world moved
\* creature to newPos: the part that looks after the follow reference.
\* walkQueueEmpty is listWalkDir.empty() and pathFound the result of
\* getPathTo in goToFollowCreature.
onCreatureMoveFollow(creature, newPos, walkQueueEmpty, pathFound) ==
    LET oldPos == IF creature = Self THEN followerPos ELSE creaturePos[creature]
        myPos == MovedPositions(creature, newPos).followerPos
        pos == MovedPositions(creature, newPos).creaturePos
        concerned == followCreature # None /\ (creature = followCreature \/ creature = Self)
        repath == concerned /\ hasFollowPath /\ creature = followCreature /\ walkQueueEmpty
        st1 == IF ~concerned \/ ~hasFollowPath THEN FollowState
               ELSE IF repath
               THEN [FollowState EXCEPT !.isUpdatingPath = FALSE, !.hasFollowPath = pathFound]
               ELSE [FollowState EXCEPT !.isUpdatingPath = TRUE]
        st2 == IF concerned /\ (newPos.z # oldPos.z \/ ~canSeePos(myPos, pos[followCreature]))
               THEN SetFollowCreatureResult(st1, myPos, pos, None)
               ELSE st1
    IN /\ newPos # oldPos
       /\ followerPos' = myPos
       /\ creaturePos' = pos
       /\ followCreature' = st2.followCreature
       /\ hasFollowPath' = st2.hasFollowPath
       /\ isUpdatingPath' = st2.isUpdatingPath
       /\ lastOp' = [op |-> "onCreatureMove", goToFollowCreature |-> repath]
       /\ UNCHANGED <<cacheVars, ownerVars, blockVars, ledgerVars, killVars, gainVars, condVars, walkVars, attackVars, matchVars, timerVars, npcVars, eventVars>>

\* Creature::onThink of Self: the part that looks after the follow
\* reference.  seen is canSeeCreature(followTarget), due tells that the path
\* is due for an update (forceUpdateFollowPath || walkUpdateTicks >= 2000)
\* and pathFound is the result of getPathTo in goToFollowCreature.
onThinkFollow(seen, due, pathFound) ==
    LET st1 == IF followCreature # None /\ due
               THEN [FollowState EXCEPT !.isUpdatingPath = TRUE]
               ELSE FollowState
        st2 == IF followCreature # None /\ master[Self] # followCreature /\ ~seen
               THEN SetFollowCreatureResult(st1, followerPos, creaturePos, None)
               ELSE st1
        st3 == IF st2.isUpdatingPath
               THEN [st2 EXCEPT !.isUpdatingPath = FALSE,
                                !.hasFollowPath = IF st2.followCreature # None
                                                  THEN pathFound ELSE @]
               ELSE st2
    IN /\ followCreature' = st3.followCreature
       /\ hasFollowPath' = st3.hasFollowPath
       /\ isUpdatingPath' = st3.isUpdatingPath
       /\ lastOp' = [op |-> "onThink"]
       /\ UNCHANGED <<followerPos, creaturePos>>
       /\ UNCHANGED <<cacheVars, ownerVars, blockVars, ledgerVars, killVars, gainVars, condVars, walkVars, attackVars, matchVars, timerVars, npcVars, eventVars>>

-----------------------------------------------------------------------------
(***************************************************************************)
(* SpecFollow: Self and the entities around it are moved by the world,     *)
(* which delivers every move to Self; Self is asked to follow, and thinks. *)
(***************************************************************************)
InitFollow ==
    /\ followerPos \in FollowPositions
    /\ creaturePos \in [Creatures -> FollowPositions]
    /\ creaturePos[Self] = Pos(0, 0)
    /\ followCreature = None
    /\ hasFollowPath = FALSE
    /\ isUpdatingPath = FALSE
    /\ OwnerIdle /\ CacheIdle /\ BlockIdle /\ LedgerIdle
    /\ KillIdle /\ GainIdle /\ CondIdle
    /\ WalkIdle /\ AttackIdle /\ MatchIdle /\ TimerIdle /\ NpcIdle /\ EventIdle
    /\ lastOp = [op |-> "init"]

NextFollow ==
    \/ \E creature \in FollowTargets \cup {None} : setFollowCreature(creature)
    \/ \E creature \in Creatures, newPos \in FollowPositions, walkQueueEmpty, pathFound \in BOOLEAN :
          onCreatureMoveFollow(creature, newPos, walkQueueEmpty, pathFound)
    \/ \E seen, due, pathFound \in BOOLEAN : onThinkFollow(seen, due, pathFound)

SpecFollow == InitFollow /\ [][NextFollow]_vars

\* C16: a setFollowCreature call with a target on another floor than the
\* entity, or outside its view range, returns false, and afterwards the
\* follow reference does not point to that target.
C16_OffFloorFollowFails ==
    [][ (/\ lastOp'.op = "setFollowCreature"
         /\ lastOp'.creature # None
         /\ \/ creaturePos[lastOp'.creature].z # followerPos.z
            \/ ~canSeePos(followerPos, creaturePos[lastOp'.creature]))
        => (lastOp'.ret = FALSE /\ followCreature' # lastOp'.creature)
      ]_vars

\* C16 witness: an entity that followed one target was asked to follow
\* another that stands within its view range but on another floor; the call
\* failed and the entity follows nobody.
C16_Witness ==
    /\ lastOp.op = "setFollowCreature"
    /\ lastOp.creature # None
    /\ lastOp.followed # None /\ lastOp.followed # lastOp.creature
    /\ ~lastOp.ret
    /\ followCreature = None
    /\ creaturePos[lastOp.creature].z # followerPos.z
    /\ canSeePos(followerPos, creaturePos[lastOp.creature])

-----------------------------------------------------------------------------
(***************************************************************************)
(* Condition collection: Creature::conditions.  Self is the entity that    *)
(* receives conditions, a player who may wear items with a paralysis       *)
(* deflection imbuement; Caster is the entity that owns the conditions it  *)
(* casts.  A condition instance is the record [inst, type, id, subId,      *)
(* live]: inst is its identity (the Condition pointer) and live tells that *)
(* getEndTime() >= OTSYS_TIME() or getTicks() == -1.                       *)
(***************************************************************************)
MaxInstances == 2   \* at most this many condition instances are created
MaxTasks == 2       \* at most this many deferred tasks are pending

Caster == CHOOSE c \in Creatures \ {Self} : \A d \in Creatures \ {Self} : c <= d

ConditionTypes == {"CONDITION_HASTE", "CONDITION_PARALYZE", "CONDITION_POISON"}
ConditionKinds ==
    {[type |-> "CONDITION_HASTE", id |-> 0, subId |-> 0],
     [type |-> "CONDITION_HASTE", id |-> 1, subId |-> 0],
     [type |-> "CONDITION_PARALYZE", id |-> 0, subId |-> 0],
     [type |-> "CONDITION_PARALYZE", id |-> 0, subId |-> 1]}
DeflectionChance == 50
RollValues == {1, DeflectionChance, DeflectionChance + 1, 100}

\* the state that the condition operations read and write
World ==
    [conditions |-> conditions, scheduler |-> scheduler, immunities |-> immunities,
     crashed |-> crashed, outcome |-> "none", ret |-> FALSE]

\* Creature::getWalkDelay() > 0 for entity e (only Self walks)
WalkDelayPositive(e) == e = Self /\ walking

\* Creature::isSuppress(type) of entity e in world w
isSuppress(w, e, type) == e = Self /\ type \in w.immunities.suppress

\* Creature::isImmune(ConditionType_t) of entity e in world w
isImmuneCondition(w, e, type) == e = Self /\ type \in w.immunities.condition

\* Creature::hasCondition(type, subId) of entity e in world w
hasCondition(w, e, type, subId) ==
    /\ ~isSuppress(w, e, type)
    /\ \E i \in 1..Len(w.conditions[e]) :
          /\ w.conditions[e][i].type = type
          /\ w.conditions[e][i].subId = subId
          /\ w.conditions[e][i].live

\* a getCondition that finds nothing
getConditionNotFound(list, type, conditionId, subId) == 0

\* Creature::getCondition(type, conditionId, subId): the place in the list of
\* the first condition with this triple, 0 if there is none
getCondition(list, type, conditionId, subId) ==
    LET found == {i \in 1..Len(list) :
                     /\ list[i].type = type
                     /\ list[i].id = conditionId
                     /\ list[i].subId = subId}
    IN IF found = {} THEN 0 ELSE MinOf(found)

\* the task that Creature::removeCondition defers while the entity is mid-step
ForceRemoveTask(e, type) == [task |-> "forceRemoveCondition", id |-> e, type |-> type]
\* the task that Creature::addCondition defers while the entity is mid-step
ForceAddTask(e, condition) == [task |-> "forceAddCondition", id |-> e, condition |-> condition]

\* Creature::removeCondition(type, force) on entity e
RemoveConditionType(w, e, type, force) ==
    IF \A i \in 1..Len(w.conditions[e]) : w.conditions[e][i].type # type THEN w
    ELSE IF ~force /\ type = "CONDITION_PARALYZE" /\ WalkDelayPositive(e)
    THEN [w EXCEPT !.scheduler = Append(@, ForceRemoveTask(e, type))]
    ELSE [w EXCEPT !.conditions[e] = SelectSeq(@, LAMBDA c : c.type # type)]

\* Creature::removeCondition(Condition*, force) on entity e, for the instance inst
RemoveConditionInstance(w, e, inst, force) ==
    LET found == {i \in 1..Len(w.conditions[e]) : w.conditions[e][i].inst = inst} IN
    IF found = {} THEN w
    ELSE LET condition == w.conditions[e][MinOf(found)] IN
         IF ~force /\ condition.type = "CONDITION_PARALYZE" /\ WalkDelayPositive(e)
         THEN [w EXCEPT !.scheduler = Append(@, ForceRemoveTask(e, condition.type))]
         ELSE [w EXCEPT !.conditions[e] = Erase(@, MinOf(found))]

\* Creature::onAddCondition(type) on entity e
onAddCondition(w, e, type) ==
    IF type = "CONDITION_PARALYZE" /\ hasCondition(w, e, "CONDITION_HASTE", 0)
    THEN RemoveConditionType(w, e, "CONDITION_HASTE", FALSE)
    ELSE IF type = "CONDITION_HASTE" /\ hasCondition(w, e, "CONDITION_PARALYZE", 0)
    THEN RemoveConditionType(w, e, "CONDITION_PARALYZE", FALSE)
    ELSE w

\* Condition::addCondition: the stored condition takes over the duration of
\* the one merged into it
MergeCondition(prevCond, condition) == [prevCond EXCEPT !.live = condition.live]

\* a store step after which the entity's kind suppresses the stored type
StoreConditionSuppressing(w, e, condition, started) ==
    IF getCondition(w.conditions[e], condition.type, condition.id, condition.subId) # 0
    THEN [w EXCEPT !.outcome = "merged", !.ret = TRUE]
    ELSE IF started
    THEN [onAddCondition([w EXCEPT !.conditions[e] = Append(@, condition)], e, condition.type)
             EXCEPT !.immunities.suppress = @ \cup {condition.type},
                    !.outcome = "stored", !.ret = TRUE]
    ELSE [w EXCEPT !.outcome = "rejected", !.ret = FALSE]

\* the end of Creature::addCondition on entity e: the condition is merged
\* into the stored one with its triple, or started and stored, or deleted;
\* started is the result of condition->startCondition
StoreCondition(w, e, condition, started) ==
    LET prevCond == getCondition(w.conditions[e], condition.type, condition.id, condition.subId) IN
    IF prevCond # 0
    THEN [w EXCEPT !.conditions[e][prevCond] = MergeCondition(@, condition),
                   !.outcome = "merged", !.ret = TRUE]
    ELSE IF started
    THEN [onAddCondition([w EXCEPT !.conditions[e] = Append(@, condition)], e, condition.type)
             EXCEPT !.outcome = "stored", !.ret = TRUE]
    ELSE [w EXCEPT !.outcome = "rejected", !.ret = FALSE]

\* a deflection that hands the condition to the caster and stores it too
DeflectedWorldKept(w, e, condition, started) ==
    [StoreCondition(StoreCondition(w, Caster, condition, started), e, condition, started)
        EXCEPT !.outcome = "deflected", !.ret = TRUE]

\* the deflection in Creature::addCondition on entity e: the caster's
\* addCondition(condition) runs and true is returned
DeflectedWorld(w, e, condition, started) ==
    [StoreCondition(w, Caster, condition, started)
        EXCEPT !.outcome = "deflected", !.ret = TRUE]

\* Creature::addCondition(condition, force) on entity e; owner is the
\* condition's CONDITION_PARAM_OWNER, roll the value of uniform_random(1, 100)
\* and ub what dereferencing a null caster does
AddConditionResult(w, e, condition, owner, force, started, roll, ub) ==
    IF /\ ~force
       /\ condition.type = "CONDITION_HASTE"
       /\ hasCondition(w, e, "CONDITION_PARALYZE", 0)
       /\ WalkDelayPositive(e)
    THEN [w EXCEPT !.scheduler = Append(@, ForceAddTask(e, condition)),
                   !.outcome = "deferred", !.ret = FALSE]
    ELSE IF /\ condition.type = "CONDITION_PARALYZE"
            /\ e = Self
            /\ wearer.chance > 0
            /\ e # owner
    THEN IF wearer.caster = "none"
         THEN IF ub = "crash"
              THEN [w EXCEPT !.crashed = TRUE, !.outcome = "crashed", !.ret = FALSE]
              ELSE StoreCondition(w, e, condition, started)
         ELSE IF wearer.caster = "player" \/ roll <= wearer.chance
         THEN DeflectedWorld(w, e, condition, started)
         ELSE StoreCondition(w, e, condition, started)
    ELSE StoreCondition(w, e, condition, started)

\* the answers of Self's suppression and immunity queries, for every type
Queries(w) ==
    [suppress |-> {t \in ConditionTypes : isSuppress(w, Self, t)},
     immune |-> {t \in ConditionTypes : isImmuneCondition(w, Self, t)},
     damage |-> {t \in CombatTypes : isImmune(t, w.immunities.damage)}]

\* the entities that hold the instance inst
Holders(cs, inst) == {e \in Creatures : \E i \in 1..Len(cs[e]) : cs[e][i].inst = inst}

\* Creature::addCondition(condition) called on Self with a new condition
addCondition(kind, owner, started, roll, ub) ==
    LET condition == [inst |-> created + 1, type |-> kind.type, id |-> kind.id,
                      subId |-> kind.subId, live |-> TRUE]
        r == AddConditionResult(World, Self, condition, owner, FALSE, started, roll, ub)
    IN /\ ~crashed
       /\ created < MaxInstances
       /\ Len(r.scheduler) <= MaxTasks
       /\ conditions' = r.conditions
       /\ scheduler' = r.scheduler
       /\ immunities' = r.immunities
       /\ crashed' = r.crashed
       /\ created' = created + 1
       /\ lastOp' = [op |-> "addCondition", inst |-> condition.inst, type |-> condition.type,
                     present |-> getCondition(conditions[Self], kind.type, kind.id, kind.subId) # 0,
                     outcome |-> r.outcome, ret |-> r.ret, queries |-> Queries(World)]
       /\ UNCHANGED <<walking, wearer>>
       /\ UNCHANGED <<cacheVars, ownerVars, blockVars, ledgerVars, killVars, gainVars, followVars, walkVars, attackVars, matchVars, timerVars, npcVars, eventVars>>

\* the scheduler runs a deferred Game::forceAddCondition(id, condition):
\* addCondition(condition, true) on the entity
forceAddCondition(started) ==
    /\ ~crashed
    /\ scheduler # <<>>
    /\ Head(scheduler).task = "forceAddCondition"
    /\ LET t == Head(scheduler)
           r == AddConditionResult([World EXCEPT !.scheduler = Tail(@)], t.id, t.condition,
                                   None, TRUE, started, 100, "crash")
       IN /\ conditions' = r.conditions
          /\ scheduler' = r.scheduler
          /\ immunities' = r.immunities
          /\ crashed' = r.crashed
          /\ lastOp' = [op |-> "forceAddCondition", inst |-> t.condition.inst,
                        type |-> t.condition.type,
                        present |-> getCondition(conditions[t.id], t.condition.type,
                                                 t.condition.id, t.condition.subId) # 0,
                        outcome |-> r.outcome, ret |-> r.ret, queries |-> Queries(World)]
    /\ UNCHANGED <<created, walking, wearer>>
    /\ UNCHANGED <<cacheVars, ownerVars, blockVars, ledgerVars, killVars, gainVars, followVars, walkVars, attackVars, matchVars, timerVars, npcVars, eventVars>>

\* the scheduler runs a deferred Game::forceRemoveCondition(id, type):
\* removeCondition(type, true) on the entity
forceRemoveCondition ==
    /\ ~crashed
    /\ scheduler # <<>>
    /\ Head(scheduler).task = "forceRemoveCondition"
    /\ LET t == Head(scheduler)
           r == RemoveConditionType([World EXCEPT !.scheduler = Tail(@)], t.id, t.type, TRUE)
       IN /\ conditions' = r.conditions
          /\ scheduler' = r.scheduler
    /\ lastOp' = [op |-> "forceRemoveCondition"]
    /\ UNCHANGED <<created, walking, wearer, immunities, crashed>>
    /\ UNCHANGED <<cacheVars, ownerVars, blockVars, ledgerVars, killVars, gainVars, followVars, walkVars, attackVars, matchVars, timerVars, npcVars, eventVars>>

\* Creature::removeCondition(condition) called on Self for a stored instance
removeCondition(inst) ==
    LET r == RemoveConditionInstance(World, Self, inst, FALSE) IN
    /\ ~crashed
    /\ Holders(conditions, inst) # {}
    /\ Len(r.scheduler) <= MaxTasks
    /\ conditions' = r.conditions
    /\ scheduler' = r.scheduler
    /\ lastOp' = [op |-> "removeCondition", inst |-> inst,
                  removed |-> (Self \in Holders(conditions, inst)
                                 /\ Self \notin Holders(r.conditions, inst)),
                  before |-> IF /\ lastOp.op = "addCondition"
                                /\ lastOp.inst = inst
                                /\ lastOp.outcome = "stored"
                             THEN [added |-> TRUE, queries |-> lastOp.queries]
                             ELSE [added |-> FALSE]]
    /\ UNCHANGED <<created, walking, wearer, immunities, crashed>>
    /\ UNCHANGED <<cacheVars, ownerVars, blockVars, ledgerVars, killVars, gainVars, followVars, walkVars, attackVars, matchVars, timerVars, npcVars, eventVars>>

\* Creature::removeCondition(type) called on Self
removeConditionType(type) ==
    LET r == RemoveConditionType(World, Self, type, FALSE) IN
    /\ ~crashed
    /\ Len(r.scheduler) <= MaxTasks
    /\ conditions' = r.conditions
    /\ scheduler' = r.scheduler
    /\ lastOp' = [op |-> "removeConditionType", type |-> type]
    /\ UNCHANGED <<created, walking, wearer, immunities, crashed>>
    /\ UNCHANGED <<cacheVars, ownerVars, blockVars, ledgerVars, killVars, gainVars, followVars, walkVars, attackVars, matchVars, timerVars, npcVars, eventVars>>

\* Creature::executeConditions on entity e: every condition whose
\* executeCondition reports completion (its end time has passed) is removed
executeConditions(e) ==
    /\ ~crashed
    /\ conditions' = [conditions EXCEPT ![e] = SelectSeq(@, LAMBDA c : c.live)]
    /\ lastOp' = [op |-> "executeConditions"]
    /\ UNCHANGED <<scheduler, created, walking, wearer, immunities, crashed>>
    /\ UNCHANGED <<cacheVars, ownerVars, blockVars, ledgerVars, killVars, gainVars, followVars, walkVars, attackVars, matchVars, timerVars, npcVars, eventVars>>

\* time passes the end time of the i-th condition of entity e
conditionEnds(e, i) ==
    /\ ~crashed
    /\ i \in 1..Len(conditions[e])
    /\ conditions[e][i].live
    /\ conditions' = [conditions EXCEPT ![e][i].live = FALSE]
    /\ lastOp' = [op |-> "conditionEnds"]
    /\ UNCHANGED <<scheduler, created, walking, wearer, immunities, crashed>>
    /\ UNCHANGED <<cacheVars, ownerVars, blockVars, ledgerVars, killVars, gainVars, followVars, walkVars, attackVars, matchVars, timerVars, npcVars, eventVars>>

\* Self starts a step (getWalkDelay() becomes positive) or the step's
\* duration has passed
walk ==
    /\ ~crashed
    /\ walking' = ~walking
    /\ lastOp' = [op |-> "walk"]
    /\ UNCHANGED <<conditions, scheduler, created, wearer, immunities, crashed>>
    /\ UNCHANGED <<cacheVars, ownerVars, blockVars, ledgerVars, killVars, gainVars, followVars, walkVars, attackVars, matchVars, timerVars, npcVars, eventVars>>

-----------------------------------------------------------------------------
(***************************************************************************)
(* SpecCond: conditions are added to Self and removed from it while it     *)
(* walks, time passes and the scheduler runs the deferred tasks.           *)
(***************************************************************************)
InitCond ==
    /\ conditions = [c \in Creatures |-> <<>>]
    /\ scheduler = <<>>
    /\ created = 0
    /\ walking = FALSE
    /\ wearer \in {[chance |-> 0, caster |-> "player"],
                   [chance |-> DeflectionChance, caster |-> "player"],
                   [chance |-> DeflectionChance, caster |-> "monster"],
                   [chance |-> DeflectionChance, caster |-> "none"]}
    /\ immunities \in {[suppress |-> {}, condition |-> {}, damage |-> {}],
                       [suppress |-> {"CONDITION_PARALYZE"},
                        condition |-> {"CONDITION_HASTE", "CONDITION_POISON"},
                        damage |-> {"COMBAT_FIREDAMAGE"}]}
    /\ crashed = FALSE
    /\ OwnerIdle /\ CacheIdle /\ BlockIdle /\ LedgerIdle
    /\ KillIdle /\ GainIdle /\ FollowIdle
    /\ WalkIdle /\ AttackIdle /\ MatchIdle /\ TimerIdle /\ NpcIdle /\ EventIdle
    /\ lastOp = [op |-> "init"]

NextCond ==
    \/ \E kind \in ConditionKinds, owner \in {Self, Caster}, started \in BOOLEAN,
          roll \in RollValues, ub \in {"crash", "continue"} :
          addCondition(kind, owner, started, roll, ub)
    \/ \E started \in BOOLEAN : forceAddCondition(started)
    \/ forceRemoveCondition
    \/ \E inst \in 1..MaxInstances : removeCondition(inst)
    \/ \E type \in ConditionTypes : removeConditionType(type)
    \/ \E e \in {Self, Caster} : executeConditions(e)
    \/ \E e \in {Self, Caster}, i \in 1..MaxInstances : conditionEnds(e, i)
    \/ walk

SpecCond == InitCond /\ [][NextCond]_vars


-----------------------------------------------------------------------------
\* C17: when addCondition has stored a condition instance on Self and
\* removeCondition is then called for that same instance, the answers of
\* Self's isSuppress and isImmune queries, for every type, are those from
\* before the add.
C17_RoundTripRestoresQueries ==
    (lastOp.op = "removeCondition" /\ lastOp.before.added)
        => Queries(World) = lastOp.before.queries

\* C17 witness: an instance was stored and then removed again on an entity
\* whose kind suppresses a type and is immune to another.
C17_Witness ==
    /\ lastOp.op = "removeCondition"
    /\ lastOp.before.added
    /\ lastOp.removed
    /\ Holders(conditions, lastOp.inst) = {}
    /\ lastOp.before.queries.suppress # {}
    /\ lastOp.before.queries.immune # {}

\* the triples (type, id, subId) of a condition list are pairwise different
UniqueTriples(list) ==
    \A i, j \in 1..Len(list) :
        (/\ list[i].type = list[j].type
         /\ list[i].id = list[j].id
         /\ list[i].subId = list[j].subId) => i = j

\* the step was an addCondition on Self
AddStep(op) == op.op \in {"addCondition", "forceAddCondition"}

\* C18 as stated: no entity's collection ever holds two conditions with the
\* same (type, id, subId), and every addCondition of a condition whose triple
\* is present merges it and leaves the number of stored conditions unchanged.
C18_AddOfPresentTripleAlwaysMerges ==
    [][/\ \A e \in Creatures : UniqueTriples(conditions'[e])
       /\ (AddStep(lastOp') /\ lastOp'.present)
             => /\ lastOp'.outcome = "merged"
                /\ Len(conditions'[Self]) = Len(conditions[Self])]_vars

\* C18: no entity's collection ever holds two conditions with the same
\* (type, id, subId); an addCondition of a condition whose triple is present
\* that reaches the lookup of the stored entry (it is neither deferred to the
\* scheduler nor taken by the deflection branch) merges the condition and
\* leaves the number of stored conditions unchanged.
C18_UniqueTriplesMergeAtLookup ==
    [][/\ \A e \in Creatures : UniqueTriples(conditions'[e])
       /\ (/\ AddStep(lastOp')
           /\ lastOp'.present
           /\ lastOp'.outcome \in {"merged", "stored", "rejected"})
             => /\ lastOp'.outcome = "merged"
                /\ Len(conditions'[Self]) = Len(conditions[Self])]_vars

\* C18 witness: a condition whose triple Self already held was added and
\* merged, and Self holds one condition.
C18_Witness ==
    /\ lastOp.op = "addCondition"
    /\ lastOp.present
    /\ lastOp.outcome = "merged"
    /\ Len(conditions[Self]) = 1

\* the condition list holds a condition of the type
HoldsType(list, type) == \E i \in 1..Len(list) : list[i].type = type

\* C19: after an addCondition call has returned, no entity's collection holds
\* both a haste and a paralysis condition.
C19_NeverHasteAndParalysis ==
    AddStep(lastOp)
        => \A e \in Creatures :
              ~(/\ HoldsType(conditions[e], "CONDITION_HASTE")
                /\ HoldsType(conditions[e], "CONDITION_PARALYZE"))

\* C20: every condition instance is stored at most once and in the
\* collection of at most one entity, and after an addCondition that deflected
\* a paralysis the instance is in no collection but the caster's.
C20_InstanceInOneCollection ==
    /\ \A inst \in 1..MaxInstances :
          /\ Cardinality(Holders(conditions, inst)) <= 1
          /\ \A e \in Creatures :
                Cardinality({i \in 1..Len(conditions[e]) : conditions[e][i].inst = inst}) <= 1
    /\ (lastOp.op = "addCondition" /\ lastOp.outcome = "deflected")
          => Holders(conditions, lastOp.inst) \subseteq {Caster}

\* C20 witness: a paralysis was deflected while Self held a condition; the
\* instance is in the caster's collection and Self's collection is as it was.
C20_Witness ==
    /\ lastOp.op = "addCondition"
    /\ lastOp.outcome = "deflected"
    /\ Holders(conditions, lastOp.inst) = {Caster}
    /\ Len(conditions[Self]) = 1


\* C21: hasCondition is false for every type in Self's suppression mask,
\* whatever Self has stored, and Self's collection never holds a condition
\* of a type Self is immune to.
C21_SuppressedInactiveImmuneNeverStored ==
    /\ \A type \in immunities.suppress, subId \in {0, 1} :
          ~hasCondition(World, Self, type, subId)
    /\ \A i \in 1..Len(conditions[Self]) :
          ~isImmuneCondition(World, Self, conditions[Self][i].type)


\* C26: the handling of a move (of the follow target or of the entity
\* itself) never executes goToFollowCreature; it only sets isUpdatingPath.
C26_NoReplanInsideMoveEvent ==
    lastOp.op = "onCreatureMove" => ~lastOp.goToFollowCreature


\* C25: no call dereferences the result of an entity lookup that found
\* nothing; in particular the deflection branch of addCondition never
\* dereferences a caster that is no longer in the game.
C25_NoNullDereference == ~crashed

\* the type of the instance inst in the condition list, "none" if it is not there
TypeOfInstance(list, inst) ==
    IF \E i \in 1..Len(list) : list[i].inst = inst
    THEN list[CHOOSE i \in 1..Len(list) : list[i].inst = inst].type
    ELSE "none"

\* C30: while Self is mid-step, a non-forced addCondition of a paralysis, and
\* a non-forced removeCondition of a paralysis that Self holds, leaves Self's
\* collection as it is and schedules one task.
C30_ParalysisChangeDeferredMidStep ==
    [][ (/\ walking
         /\ \/ lastOp'.op = "addCondition" /\ lastOp'.type = "CONDITION_PARALYZE"
            \/ /\ lastOp'.op = "removeConditionType"
               /\ lastOp'.type = "CONDITION_PARALYZE"
               /\ HoldsType(conditions[Self], "CONDITION_PARALYZE")
            \/ /\ lastOp'.op = "removeCondition"
               /\ TypeOfInstance(conditions[Self], lastOp'.inst) = "CONDITION_PARALYZE")
        => (/\ conditions'[Self] = conditions[Self]
            /\ Len(scheduler') = Len(scheduler) + 1)
      ]_vars


-----------------------------------------------------------------------------
\* C28: across every interleaving of think passes and blockHit calls the
\* defense charge counter stays within 0..2; a think pass adds one charge,
\* capped at 2, exactly when the accumulated think ticks reach 1000, and a
\* blockHit that applies defense mitigation found a charge and consumed it
\* (no blockHit ever adds a charge).
C28_ChargesWithinCapAndConsumed ==
    [][ /\ blockCount' \in 0..MaxBlockCount
        /\ lastOp'.op = "onThink" =>
              IF blockTicks + lastOp'.interval >= BlockTicksPeriod
              THEN blockCount' = Min(blockCount + 1, MaxBlockCount) /\ blockTicks' = 0
              ELSE blockCount' = blockCount /\ blockTicks' = blockTicks + lastOp'.interval
        /\ lastOp'.op = "blockHit" =>
              /\ blockCount' <= blockCount
              /\ hit'.defenseUsed => (blockCount > 0 /\ blockCount' = blockCount - 1)
      ]_vars

\* C28 witness: a blockHit applied defense mitigation with the last charge,
\* and think passes have since regenerated the charges up to the cap.
C28_Witness ==
    /\ lastOp.op = "onThink"
    /\ blockCount = MaxBlockCount
    /\ hit.op = "blockHit"
    /\ hit.defenseUsed
    /\ hit.blockCount = 0

\* the case of C29: a target that is not immune and holds a defense charge
\* is hit with both checks enabled
C29_Case ==
    /\ hit.op = "blockHit"
    /\ ~hit.immune
    /\ hit.hadCharge
    /\ call.checkDefense /\ call.checkArmor

\* the amount subtracted for armor follows the armor rule
C29_ArmorAmount ==
    IF target.armor > 3
    THEN /\ target.armor \div 2 <= hit.armorSub
         /\ hit.armorSub <= target.armor - ((target.armor % 2) + 1)
    ELSE IF target.armor > 0
    THEN hit.armorSub = 1
    ELSE hit.armorSub = 0

\* the amount subtracted for defense lies within [defense/2, defense], and
\* the armor amount is 0 if that zeroes the damage and follows the armor
\* rule otherwise
C29_DefenseThenArmor ==
    /\ target.defense \div 2 <= hit.defenseSub
    /\ hit.defenseSub <= target.defense
    /\ IF call.damage - hit.defenseSub <= 0 THEN hit.armorSub = 0 ELSE C29_ArmorAmount

\* C29 as stated: in the case of C29 the defense and armor amounts follow
\* the two rules, for every target.
C29_AmountsWithinRangesAnyTarget == C29_Case => C29_DefenseThenArmor

\* C29: in the case of C29 the defense and armor amounts follow the two
\* rules when the target can use its defense; when it cannot, nothing is
\* subtracted for defense and the armor amount follows the armor rule
\* whatever the damage.
C29_AmountsWithinRanges ==
    C29_Case =>
        IF target.canUseDefense
        THEN C29_DefenseThenArmor
        ELSE hit.defenseSub = 0 /\ C29_ArmorAmount

\* C29 witness: the defense draw took its lowest value, which is above 0,
\* damage was left, and the armor draw of a target with armor above 3 took
\* its highest value.
C29_Witness ==
    /\ C29_Case
    /\ target.canUseDefense
    /\ target.defense > 1
    /\ hit.defenseSub = target.defense \div 2
    /\ call.damage - hit.defenseSub > 0
    /\ target.armor > 3
    /\ hit.armorSub = target.armor - ((target.armor % 2) + 1)


-----------------------------------------------------------------------------
(***************************************************************************)
(* SpecWalkCache: the perception cache of a moving entity is queried.      *)
(***************************************************************************)
QueryPositions == {[x |-> x, y |-> y, z |-> z] : x \in Coords, y \in Coords, z \in {Floor - 1, Floor}}

\* Creature::getWalkCache(pos) of an entity at myPos; useCache is useCacheMap()
GetWalkCacheResult(useCache, myPos, cache, pos) ==
    IF ~useCache THEN 2
    ELSE IF myPos.z # pos.z THEN 0
    ELSE IF pos = myPos THEN 1
    ELSE LET dx == getOffsetX(pos, myPos)
             dy == getOffsetY(pos, myPos)
         IN IF Abs(dx) <= maxWalkCacheWidth /\ Abs(dy) <= maxWalkCacheHeight
            THEN IF cache[maxWalkCacheHeight + dy][maxWalkCacheWidth + dx] THEN 1 ELSE 0
            ELSE 2

\* Creature::getWalkCache(pos) called on the entity
getWalkCache(pos, useCache) ==
    /\ lastOp' = [op |-> "getWalkCache", pos |-> pos, useCacheMap |-> useCache,
                  ret |-> GetWalkCacheResult(useCache, position, localMapCache, pos)]
    /\ UNCHANGED cacheVars
    /\ UNCHANGED <<ownerVars, blockVars, ledgerVars, killVars, gainVars, followVars, condVars, walkVars, attackVars, matchVars, timerVars, npcVars, eventVars>>

InitWalkCache ==
    /\ walkable = Tiles \ {<<WorldMax, 0>>}
    /\ position \in {Pos(t[1], t[2]) : t \in walkable}
    /\ localMapCache = EmptyCache
    /\ isMapLoaded = FALSE
    /\ lastStepCost = 1
    /\ OwnerIdle /\ BlockIdle /\ LedgerIdle
    /\ KillIdle /\ GainIdle /\ FollowIdle /\ CondIdle
    /\ WalkIdle /\ AttackIdle /\ MatchIdle /\ TimerIdle /\ NpcIdle /\ EventIdle
    /\ lastOp = [op |-> "init"]

NextWalkCache ==
    \/ onCreatureAppear
    \/ \E t \in Tiles, teleport \in BOOLEAN : onCreatureMove(Pos(t[1], t[2]), teleport)
    \/ \E pos \in QueryPositions, useCache \in BOOLEAN : getWalkCache(pos, useCache)

SpecWalkCache == InitWalkCache /\ [][NextWalkCache]_vars

\* C27: getWalkCache(pos) returns 2 (unknown) when caching is disabled for
\* the entity's kind; otherwise 1 (self) when pos is the entity's position;
\* otherwise 2 when the offset of pos from the entity is outside the cached
\* radius; and in every other case 1 or 0 as the cached cell at that offset
\* is true or false.
C27_GetWalkCacheThreeWay ==
    lastOp.op = "getWalkCache" =>
        LET dx == getOffsetX(lastOp.pos, position)
            dy == getOffsetY(lastOp.pos, position)
        IN lastOp.ret =
              IF ~lastOp.useCacheMap THEN 2
              ELSE IF lastOp.pos = position THEN 1
              ELSE IF Abs(dx) > maxWalkCacheWidth \/ Abs(dy) > maxWalkCacheHeight THEN 2
              ELSE IF localMapCache[maxWalkCacheHeight + dy][maxWalkCacheWidth + dx] THEN 1
              ELSE 0


-----------------------------------------------------------------------------
(***************************************************************************)
(* Queued walk: Creature::startAutoWalk, addEventWalk, onWalk and          *)
(* getNextStep.  A walk check is Game::checkCreatureWalk, which calls      *)
(* onWalk; it runs when the scheduled walk event fires and, for a first    *)
(* step without delay, inline from addEventWalk.                           *)
(***************************************************************************)
MaxWalkLen == 2     \* startAutoWalk is given at most this many directions

Directions == {"DIRECTION_NORTH", "DIRECTION_EAST"}
DirectionLists == UNION {[1..n -> Directions] : n \in 1..MaxWalkLen}
\* getWalkDelay(): 0 stands for a delay that has run out, 1 for a remaining
\* delay of one tick, 2 for a longer one
WalkDelays == {0, 1, 2}
\* getStepDuration() * lastStepCost, a time of more than one tick
StepTicks == 2

\* the state the walk operations read and write; aborted counts the
\* onWalkAborted notifications of the call and moveFailed tells that a move
\* request of the call failed
WalkState ==
    [listWalkDir |-> listWalkDir, cancelNextWalk |-> cancelNextWalk, eventWalk |-> eventWalk,
     forceUpdateFollowPath |-> forceUpdateFollowPath, walkMoved |-> walkMoved,
     aborted |-> 0, moveFailed |-> FALSE, moved |-> FALSE, completed |-> FALSE]

\* Creature::getEventStepTicks(onlyDelay)
getEventStepTicks(walkDelay, onlyDelay) ==
    IF walkDelay <= 0
    THEN IF onlyDelay THEN 1 ELSE StepTicks
    ELSE walkDelay

\* a getNextStep that takes the direction at the front of the list
GetNextStepFront(st) ==
    [st EXCEPT !.listWalkDir = Tail(@), !.walkMoved = Append(@, Head(st.listWalkDir))]

\* Creature::getNextStep on a list that is not empty: the direction at the
\* back of the list is removed and used for the move request
getNextStep(st) ==
    [st EXCEPT !.listWalkDir = Front(@),
               !.walkMoved = Append(@, st.listWalkDir[Len(st.listWalkDir)])]

\* Creature::onWalk, the part behind the walk delay test; moveOk tells that
\* g_game.internalMoveCreature returns RETURNVALUE_NOERROR
OnWalkStep(st, walkDelay, moveOk) ==
    IF walkDelay > 0 THEN st
    ELSE IF st.listWalkDir # <<>>
    THEN IF moveOk
         THEN [getNextStep(st) EXCEPT !.moved = TRUE]
         ELSE [getNextStep(st) EXCEPT !.moveFailed = TRUE, !.forceUpdateFollowPath = TRUE]
    ELSE [st EXCEPT !.eventWalk = FALSE, !.completed = TRUE]

\* Creature::onWalk, the handling of cancelNextWalk
OnWalkCancel(st) ==
    IF st.cancelNextWalk
    THEN [st EXCEPT !.listWalkDir = <<>>, !.aborted = @ + 1, !.cancelNextWalk = FALSE]
    ELSE st

\* an onWalk that handles cancelNextWalk only when the walk delay has run out
OnWalkCancelBehindDelay(st, walkDelay, moveOk) ==
    IF walkDelay > 0 THEN st ELSE OnWalkCancel(OnWalkStep(st, walkDelay, moveOk))

\* Creature::onWalk up to the rescheduling of the walk event
OnWalkCore(st, walkDelay, moveOk) == OnWalkCancel(OnWalkStep(st, walkDelay, moveOk))

\* Creature::addEventWalk(firstStep); canStep tells that getStepSpeed() > 0.
\* With one tick to wait the walk check runs inline (eventWalk is 0 then, so
\* that onWalk does not reschedule).
AddEventWalkResult(st, firstStep, walkDelay, moveOk, canStep) ==
    LET st1 == [st EXCEPT !.cancelNextWalk = FALSE] IN
    IF ~canStep \/ st1.eventWalk THEN st1
    ELSE IF getEventStepTicks(walkDelay, firstStep) = 1
    THEN [OnWalkCore(st1, walkDelay, moveOk) EXCEPT !.eventWalk = TRUE]
    ELSE [st1 EXCEPT !.eventWalk = TRUE]

\* Creature::onWalk; after a move that succeeded the walk delay is that of
\* the new step
OnWalkResult(st, walkDelay, moveOk, canStep) ==
    LET st1 == OnWalkCore(st, walkDelay, moveOk) IN
    IF st1.eventWalk
    THEN AddEventWalkResult([st1 EXCEPT !.eventWalk = FALSE], FALSE,
                            IF st1.moved THEN StepTicks ELSE walkDelay, moveOk, canStep)
    ELSE st1

\* Creature::startAutoWalk(listDir); blocked is player->isMovementBlocked()
startAutoWalk(listDir, blocked, walkDelay, moveOk, canStep) ==
    LET st == AddEventWalkResult([WalkState EXCEPT !.listWalkDir = listDir, !.walkMoved = <<>>],
                                 Len(listDir) = 1, walkDelay, moveOk, canStep)
    IN /\ IF blocked
          THEN UNCHANGED walkVars
          ELSE /\ listWalkDir' = st.listWalkDir
               /\ cancelNextWalk' = st.cancelNextWalk
               /\ eventWalk' = st.eventWalk
               /\ forceUpdateFollowPath' = st.forceUpdateFollowPath
               /\ walkStarted' = listDir
               /\ walkMoved' = st.walkMoved
       /\ lastOp' = [op |-> "startAutoWalk", blocked |-> blocked]
       /\ UNCHANGED <<cacheVars, ownerVars, blockVars, ledgerVars, killVars, gainVars, followVars, condVars, attackVars, matchVars, timerVars, npcVars, eventVars>>

\* the scheduled walk event fires: Game::checkCreatureWalk calls onWalk
onWalk(walkDelay, moveOk, canStep) ==
    LET st == OnWalkResult(WalkState, walkDelay, moveOk, canStep) IN
    /\ eventWalk
    /\ listWalkDir' = st.listWalkDir
    /\ cancelNextWalk' = st.cancelNextWalk
    /\ eventWalk' = st.eventWalk
    /\ forceUpdateFollowPath' = st.forceUpdateFollowPath
    /\ walkMoved' = st.walkMoved
    /\ lastOp' = [op |-> "onWalk", walkDelay |-> walkDelay, cancelled |-> cancelNextWalk,
                  queued |-> Len(listWalkDir), aborted |-> st.aborted,
                  moveFailed |-> st.moveFailed]
    /\ UNCHANGED walkStarted
    /\ UNCHANGED <<cacheVars, ownerVars, blockVars, ledgerVars, killVars, gainVars, followVars, condVars, attackVars, matchVars, timerVars, npcVars, eventVars>>

\* the next walk is cancelled: cancelNextWalk is set
setCancelNextWalk ==
    /\ cancelNextWalk' = TRUE
    /\ lastOp' = [op |-> "setCancelNextWalk"]
    /\ UNCHANGED <<listWalkDir, eventWalk, forceUpdateFollowPath, walkStarted, walkMoved>>
    /\ UNCHANGED <<cacheVars, ownerVars, blockVars, ledgerVars, killVars, gainVars, followVars, condVars, attackVars, matchVars, timerVars, npcVars, eventVars>>

InitWalk ==
    /\ WalkIdle /\ AttackIdle /\ MatchIdle /\ TimerIdle /\ NpcIdle /\ EventIdle
    /\ OwnerIdle /\ CacheIdle /\ BlockIdle /\ LedgerIdle
    /\ KillIdle /\ GainIdle /\ FollowIdle /\ CondIdle
    /\ lastOp = [op |-> "init"]

NextWalk ==
    \/ \E listDir \in DirectionLists, blocked \in BOOLEAN, walkDelay \in WalkDelays,
          moveOk \in BOOLEAN, canStep \in BOOLEAN :
          startAutoWalk(listDir, blocked, walkDelay, moveOk, canStep)
    \/ \E walkDelay \in WalkDelays, moveOk \in BOOLEAN, canStep \in BOOLEAN :
          onWalk(walkDelay, moveOk, canStep)
    \/ setCancelNextWalk

SpecWalk == InitWalk /\ [][NextWalk]_vars

\* s is a prefix of t
IsPrefix(s, t) == Len(s) <= Len(t) /\ \A i \in 1..Len(s) : s[i] = t[i]

\* C22: the move requests made since a walk was started with the list
\* [d1, ..., dn] are d1, d2, ... in that order.
C22_MovesInQueueOrder == IsPrefix(walkMoved, walkStarted)

\* C23: after a walk check in which the move request failed, the queued
\* direction list is empty and the walk-abort notification has fired.
C23_FailedMoveClearsAndAborts ==
    (lastOp.op = "onWalk" /\ lastOp.moveFailed)
        => (listWalkDir = <<>> /\ lastOp.aborted > 0)

\* a walk check that finds cancelNextWalk set empties the queued direction
\* list, fires the walk-abort notification exactly once and resets the flag,
\* whatever the walk delay
C24_WalkCheckHandlesCancel ==
    (lastOp'.op = "onWalk" /\ cancelNextWalk)
        => (listWalkDir' = <<>> /\ lastOp'.aborted = 1 /\ ~cancelNextWalk')

-----------------------------------------------------------------------------
\* C35: an entity whose death resolution is enqueued and has not run keeps
\* the health 0, and a death resolution that has run found the health 0.
C35_HealthStaysZeroUntilDeath ==
    /\ \A c \in Creatures :
          (c \notin removed /\ \E i \in 1..Len(dispatcher) : dispatcher[i] = ExecuteDeathTask(c))
             => health[c] = 0
    /\ (lastOp.op = "executeDeath" /\ lastOp.ran) => health[lastOp.self] = 0


-----------------------------------------------------------------------------
(***************************************************************************)
(* SpecTile: the items on the tiles around a standing entity change, and   *)
(* the entity is notified of every change.                                 *)
(***************************************************************************)
\* the world changes the items on the tile at pos, after which queryAdd on
\* that tile succeeds iff ok (the model keeps the tiles of one floor)
TileChanged(pos, ok) ==
    IF pos.z # Floor THEN walkable
    ELSE IF ok THEN walkable \cup {<<pos.x, pos.y>>}
    ELSE walkable \ {<<pos.x, pos.y>>}

\* the cache after a tile-mutation notification for pos that passed the
\* handler's tests
TileNotified(pos, ok) ==
    IF pos.z = position.z
    THEN updateTileCacheAt(localMapCache, ok,
                           getOffsetX(pos, position), getOffsetY(pos, position))
    ELSE localMapCache

\* Creature::onAddTileItem(tile, pos)
onAddTileItem(pos, ok) ==
    /\ walkable' = TileChanged(pos, ok)
    /\ Cardinality(Tiles \ walkable') <= MaxBlocked
    /\ localMapCache' = IF isMapLoaded /\ pos.z = position.z
                        THEN TileNotified(pos, ok)
                        ELSE localMapCache
    /\ lastOp' = [op |-> "onAddTileItem", pos |-> pos]
    /\ UNCHANGED <<position, isMapLoaded, lastStepCost>>
    /\ UNCHANGED <<ownerVars, blockVars, ledgerVars, killVars, gainVars, followVars, condVars, walkVars, attackVars, matchVars, timerVars, npcVars, eventVars>>

\* Creature::onUpdateTileItem(tile, pos, ..., oldType, ..., newType);
\* blocking tells that the old or the new item type blocks (blockSolid or
\* blockPathFind), and an item that does not block leaves queryAdd as it was
onUpdateTileItem(pos, ok, blocking) ==
    /\ walkable' = IF blocking THEN TileChanged(pos, ok) ELSE walkable
    /\ Cardinality(Tiles \ walkable') <= MaxBlocked
    /\ localMapCache' = IF isMapLoaded /\ blocking
                        THEN TileNotified(pos, ok)
                        ELSE localMapCache
    /\ lastOp' = [op |-> "onUpdateTileItem", pos |-> pos]
    /\ UNCHANGED <<position, isMapLoaded, lastStepCost>>
    /\ UNCHANGED <<ownerVars, blockVars, ledgerVars, killVars, gainVars, followVars, condVars, walkVars, attackVars, matchVars, timerVars, npcVars, eventVars>>

\* Creature::onRemoveTileItem(tile, pos, iType, ...); blocking tells that
\* the removed item's type blocks or is a ground tile
onRemoveTileItem(pos, ok, blocking) ==
    /\ walkable' = IF blocking THEN TileChanged(pos, ok) ELSE walkable
    /\ Cardinality(Tiles \ walkable') <= MaxBlocked
    /\ localMapCache' = IF isMapLoaded /\ blocking
                        THEN TileNotified(pos, ok)
                        ELSE localMapCache
    /\ lastOp' = [op |-> "onRemoveTileItem", pos |-> pos]
    /\ UNCHANGED <<position, isMapLoaded, lastStepCost>>
    /\ UNCHANGED <<ownerVars, blockVars, ledgerVars, killVars, gainVars, followVars, condVars, walkVars, attackVars, matchVars, timerVars, npcVars, eventVars>>

InitTile ==
    /\ walkable = Tiles
    /\ position \in {Pos(t[1], t[2]) : t \in Tiles}
    /\ localMapCache = EmptyCache
    /\ isMapLoaded = FALSE
    /\ lastStepCost = 1
    /\ OwnerIdle /\ BlockIdle /\ LedgerIdle
    /\ KillIdle /\ GainIdle /\ FollowIdle /\ CondIdle
    /\ WalkIdle /\ AttackIdle /\ MatchIdle /\ TimerIdle /\ NpcIdle /\ EventIdle
    /\ lastOp = [op |-> "init"]

NextTile ==
    \/ onCreatureAppear
    \/ \E pos \in QueryPositions, ok \in BOOLEAN : onAddTileItem(pos, ok)
    \/ \E pos \in QueryPositions, ok \in BOOLEAN, blocking \in BOOLEAN :
          onUpdateTileItem(pos, ok, blocking)
    \/ \E pos \in QueryPositions, ok \in BOOLEAN, blocking \in BOOLEAN :
          onRemoveTileItem(pos, ok, blocking)

SpecTile == InitTile /\ [][NextTile]_vars

\* the step was a tile-mutation notification
TileStep(op) == op.op \in {"onAddTileItem", "onUpdateTileItem", "onRemoveTileItem"}

\* C31: a tile-mutation notification for a position p leaves every cache
\* cell but the one at p's offset unchanged, and leaves the whole cache
\* unchanged unless the cache is loaded, p is on the entity's floor and p's
\* offset lies within the cached radius.
C31_TileNotificationWritesOneCell ==
    [][ TileStep(lastOp') =>
          LET dx == getOffsetX(lastOp'.pos, position)
              dy == getOffsetY(lastOp'.pos, position)
              affects == /\ isMapLoaded
                         /\ lastOp'.pos.z = position.z
                         /\ Abs(dx) <= maxWalkCacheWidth
                         /\ Abs(dy) <= maxWalkCacheHeight
          IN \A y \in 0..(mapWalkHeight - 1), x \in 0..(mapWalkWidth - 1) :
                localMapCache'[y][x] # localMapCache[y][x]
                   => (affects /\ y = maxWalkCacheHeight + dy /\ x = maxWalkCacheWidth + dx)
      ]_vars

\* C31 witness: with the cache loaded, an item was added to a tile of the
\* entity's floor that is not the entity's own; the tile's cell tells that
\* the tile is blocked and the cell of the entity's own tile that it is not.
C31_Witness ==
    /\ lastOp.op = "onAddTileItem"
    /\ isMapLoaded
    /\ lastOp.pos.z = position.z
    /\ lastOp.pos # position
    /\ Abs(getOffsetX(lastOp.pos, position)) <= maxWalkCacheWidth
    /\ Abs(getOffsetY(lastOp.pos, position)) <= maxWalkCacheHeight
    /\ ~localMapCache[maxWalkCacheHeight + getOffsetY(lastOp.pos, position)]
                     [maxWalkCacheWidth + getOffsetX(lastOp.pos, position)]
    /\ localMapCache[maxWalkCacheHeight][maxWalkCacheWidth]


-----------------------------------------------------------------------------
(***************************************************************************)
(* Attack reference: Creature::attackedCreature of every entity.  Self     *)
(* stands at followerPos and every other entity c at creaturePos[c].       *)
(***************************************************************************)
\* getPosition() of every entity
PositionOf(fp, cp) == [c \in Creatures |-> IF c = Self THEN fp ELSE cp[c]]

\* the tiles of the protection zone
ProtectionZone == {p \in FollowPositions : p.x = FollowMaxX /\ p.z = Floor}

\* Tile::getZone of the tile at pos
getZone(pos) == IF pos \in ProtectionZone THEN "ZONE_PROTECTION" ELSE "ZONE_NORMAL"

\* a setAttackedCreature that keeps the reference it had when the test fails
SetAttackedCreatureKeepsOld(ac, ss, posOf, c, creature) ==
    IF creature # None
       /\ (posOf[creature].z # posOf[c].z \/ ~canSeePos(posOf[c], posOf[creature]))
    THEN [attackedCreature |-> ac, ret |-> FALSE]
    ELSE [attackedCreature |-> [d \in Creatures |->
                                  IF d = c \/ Find(ss[c], d) # 0 THEN creature ELSE ac[d]],
          ret |-> TRUE]

\* a setAttackedCreature that does not pass the assignment down
SetAttackedCreatureOwnOnly(ac, ss, posOf, c, creature) ==
    IF creature # None
       /\ (posOf[creature].z # posOf[c].z \/ ~canSeePos(posOf[c], posOf[creature]))
    THEN [attackedCreature |-> [ac EXCEPT ![c] = None], ret |-> FALSE]
    ELSE [attackedCreature |-> [ac EXCEPT ![c] = creature], ret |-> TRUE]

RECURSIVE SetAttackedCreatureResult(_, _, _, _, _)
RECURSIVE SetAttackedCreatureOfSummons(_, _, _, _, _)

\* Creature::setAttackedCreature(creature) called on c, the attack references
\* being ac, the summon lists ss and the entities standing at posOf: the
\* attack references afterwards and the value returned
SetAttackedCreatureResult(ac, ss, posOf, c, creature) ==
    IF creature # None
       /\ (posOf[creature].z # posOf[c].z \/ ~canSeePos(posOf[c], posOf[creature]))
    THEN [attackedCreature |-> [ac EXCEPT ![c] = None], ret |-> FALSE]
    ELSE [attackedCreature |->
             SetAttackedCreatureOfSummons([ac EXCEPT ![c] = creature], ss, posOf, ss[c], creature),
          ret |-> TRUE]

\* the loop of setAttackedCreature over the summon list
SetAttackedCreatureOfSummons(ac, ss, posOf, list, creature) ==
    IF list = <<>> THEN ac
    ELSE SetAttackedCreatureOfSummons(
             SetAttackedCreatureResult(ac, ss, posOf, Head(list), creature).attackedCreature,
             ss, posOf, Tail(list), creature)

\* Creature::setAttackedCreature(creature) called on c
setAttackedCreature(c, creature) ==
    LET r == SetAttackedCreatureResult(attackedCreature, summons,
                                       PositionOf(followerPos, creaturePos), c, creature) IN
    /\ attackedCreature' = r.attackedCreature
    /\ lastOp' = [op |-> "setAttackedCreature", self |-> c, creature |-> creature,
                  held |-> attackedCreature[c], ret |-> r.ret,
                  changed |-> {d \in Creatures : r.attackedCreature[d] # attackedCreature[d]}]
    /\ UNCHANGED <<cacheVars, ownerVars, blockVars, ledgerVars, killVars, gainVars, followVars, condVars, walkVars, matchVars, timerVars, npcVars, eventVars>>

\* the targets of Self: its attack references and its follow state
TargetState == [attackedCreature |-> attackedCreature, follow |-> FollowState]

\* Creature::onCreatureDisappear(creature, false) of Self
OnCreatureDisappear(ts, ss, posOf, creature) ==
    [attackedCreature |->
        IF creature # None /\ ts.attackedCreature[Self] = creature
        THEN SetAttackedCreatureResult(ts.attackedCreature, ss, posOf, Self, None).attackedCreature
        ELSE ts.attackedCreature,
     follow |->
        IF creature # None /\ ts.follow.followCreature = creature
        THEN SetFollowCreatureResult(ts.follow, posOf[Self], posOf, None)
        ELSE ts.follow]

\* a test of onCreatureMove that looks at the view range but not at the floors
MoveLosesTargetNoFloorTest(newPos, oldPos, myPos, targetPos) ==
    ~canSeePos(myPos, targetPos)

\* the test of onCreatureMove that drops a target
MoveLosesTarget(newPos, oldPos, myPos, targetPos) ==
    newPos.z # oldPos.z \/ ~canSeePos(myPos, targetPos)

\* Creature::onCreatureMove(creature, newTile, newPos, oldTile, oldPos, teleport)
\* delivered to Self, which has no summons and does not use the perception
\* cache, after the world moved creature to newPos: the zone change, the
\* follow part and the attack part.  walkQueueEmpty is listWalkDir.empty()
\* and pathFound the result of getPathTo in goToFollowCreature.
onCreatureMoveTargets(creature, newPos, walkQueueEmpty, pathFound) ==
    LET oldPos == IF creature = Self THEN followerPos ELSE creaturePos[creature]
        moved == MovedPositions(creature, newPos)
        posOf == PositionOf(moved.followerPos, moved.creaturePos)
        myPos == posOf[Self]
        zoneChanged == getZone(newPos) # getZone(oldPos)
        \* onChangeZone(getZone())
        ts1 == IF /\ creature = Self /\ zoneChanged
                  /\ attackedCreature[Self] # None /\ getZone(myPos) = "ZONE_PROTECTION"
               THEN OnCreatureDisappear(TargetState, summons, posOf, attackedCreature[Self])
               ELSE TargetState
        followed == ts1.follow.followCreature
        concerned == followed # None /\ (creature = followed \/ creature = Self)
        repath == concerned /\ ts1.follow.hasFollowPath /\ creature = followed /\ walkQueueEmpty
        ts2 == IF ~concerned \/ ~ts1.follow.hasFollowPath THEN ts1
               ELSE IF repath
               THEN [ts1 EXCEPT !.follow.isUpdatingPath = FALSE, !.follow.hasFollowPath = pathFound]
               ELSE [ts1 EXCEPT !.follow.isUpdatingPath = TRUE]
        ts3 == IF concerned /\ MoveLosesTarget(newPos, oldPos, myPos, posOf[followed])
               THEN OnCreatureDisappear(ts2, summons, posOf, followed)
               ELSE ts2
        attacked == ts3.attackedCreature[Self]
        ts4 == IF attacked # None /\ (creature = attacked \/ creature = Self)
               THEN IF MoveLosesTarget(newPos, oldPos, myPos, posOf[attacked])
                    THEN OnCreatureDisappear(ts3, summons, posOf, attacked)
                    \* onAttackedCreatureChangeZone(target->getZone())
                    ELSE IF zoneChanged /\ getZone(posOf[attacked]) = "ZONE_PROTECTION"
                    THEN OnCreatureDisappear(ts3, summons, posOf, attacked)
                    ELSE ts3
               ELSE ts3
    IN /\ newPos # oldPos
       \* the handler reads listWalkDir and asks for a path only to re-plan
       /\ (~concerned \/ ~ts1.follow.hasFollowPath \/ creature # followed) => walkQueueEmpty
       /\ ~repath => pathFound
       /\ followerPos' = moved.followerPos
       /\ creaturePos' = moved.creaturePos
       /\ attackedCreature' = ts4.attackedCreature
       /\ followCreature' = ts4.follow.followCreature
       /\ hasFollowPath' = ts4.follow.hasFollowPath
       /\ isUpdatingPath' = ts4.follow.isUpdatingPath
       /\ lastOp' = [op |-> "onCreatureMove", creature |-> creature,
                     floorChanged |-> (newPos.z # oldPos.z),
                     byAttacked |-> (creature = attackedCreature[Self])]
       /\ UNCHANGED <<cacheVars, ownerVars, blockVars, ledgerVars, killVars, gainVars, condVars, walkVars, matchVars, timerVars, npcVars, eventVars>>

-----------------------------------------------------------------------------
(***************************************************************************)
(* SpecTargets: Self, which has no summons, is given attack and follow     *)
(* targets while the world moves it and one of the entities around it; the *)
(* other entities stand still.                                             *)
(***************************************************************************)
\* the entities that the world moves
Movers == {Self, Self + 1}

InitTargets ==
    /\ followerPos \in FollowPositions
    /\ creaturePos \in [Creatures -> FollowPositions]
    /\ creaturePos[Self] = Pos(0, 0)
    /\ \A c \in Creatures \ Movers : creaturePos[c] = Pos(1, 0)
    /\ followCreature = None
    /\ hasFollowPath = FALSE
    /\ isUpdatingPath = FALSE
    /\ OwnerIdle /\ CacheIdle /\ BlockIdle /\ LedgerIdle
    /\ KillIdle /\ GainIdle /\ CondIdle
    /\ WalkIdle /\ AttackIdle /\ MatchIdle /\ TimerIdle /\ NpcIdle /\ EventIdle
    /\ lastOp = [op |-> "init"]

NextTargets ==
    \/ \E creature \in FollowTargets \cup {None} : setFollowCreature(creature)
    \/ \E creature \in FollowTargets \cup {None} : setAttackedCreature(Self, creature)
    \/ \E creature \in Movers, newPos \in FollowPositions, walkQueueEmpty, pathFound \in BOOLEAN :
          onCreatureMoveTargets(creature, newPos, walkQueueEmpty, pathFound)
    \/ \E seen, due, pathFound \in BOOLEAN : onThinkFollow(seen, due, pathFound)

SpecTargets == InitTargets /\ [][NextTargets]_vars

\* C32: after onCreatureMove has processed a move made by the entity itself
\* or by its attack target (follow target), the attack (follow) reference is
\* still set only if the move did not change floor and the target stands
\* within the entity's view range; otherwise it is cleared.
C32_MoveKeepsTargetOnlyInView ==
    [][ lastOp'.op = "onCreatureMove" =>
          LET posOf == PositionOf(followerPos', creaturePos')
              stays(t) == /\ ~lastOp'.floorChanged
                          /\ canSeePos(posOf[Self], posOf[t])
          IN /\ (attackedCreature[Self] # None
                    /\ lastOp'.creature \in {Self, attackedCreature[Self]})
                 => /\ attackedCreature'[Self] \in {None, attackedCreature[Self]}
                    /\ attackedCreature'[Self] # None => stays(attackedCreature[Self])
             /\ (followCreature # None /\ lastOp'.creature \in {Self, followCreature})
                 => /\ followCreature' \in {None, followCreature}
                    /\ followCreature' # None => stays(followCreature)
      ]_vars

\* C32 witness: the attack target of an entity changed floor to a position
\* the entity still sees, and the entity, which goes on following another
\* entity, has no attack target any more.
C32_Witness ==
    /\ lastOp.op = "onCreatureMove"
    /\ lastOp.byAttacked
    /\ lastOp.floorChanged
    /\ canSeePos(followerPos, creaturePos[lastOp.creature])
    /\ attackedCreature[Self] = None
    /\ followCreature # None


\* C40: a setAttackedCreature (setFollowCreature) call fails exactly when a
\* target was requested that stands on another floor or out of view (and,
\* for setFollowCreature, is not the target already followed), and after a
\* failed call the entity has no attack (follow) target at all.
C40_FailedCallClearsReference ==
    [][ /\ lastOp'.op = "setAttackedCreature" =>
             LET posOf == PositionOf(followerPos, creaturePos)
                 c == lastOp'.self
                 t == lastOp'.creature
             IN /\ ~lastOp'.ret <=> (t # None /\ (posOf[t].z # posOf[c].z
                                                  \/ ~canSeePos(posOf[c], posOf[t])))
                /\ ~lastOp'.ret => attackedCreature'[c] = None
        /\ lastOp'.op = "setFollowCreature" =>
             LET t == lastOp'.creature
             IN /\ ~lastOp'.ret <=> (/\ t # None /\ t # followCreature
                                     /\ \/ creaturePos[t].z # followerPos.z
                                        \/ ~canSeePos(followerPos, creaturePos[t]))
                /\ ~lastOp'.ret => followCreature' = None
      ]_vars

\* C40 witness: an entity that attacked one target was asked to attack
\* another that stands on another floor; the call failed and the entity
\* attacks nobody.
C40_Witness ==
    /\ lastOp.op = "setAttackedCreature"
    /\ lastOp.self = Self
    /\ lastOp.creature # None
    /\ lastOp.held # None /\ lastOp.held # lastOp.creature
    /\ creaturePos[lastOp.creature].z # followerPos.z
    /\ ~lastOp.ret
    /\ attackedCreature[Self] = None


-----------------------------------------------------------------------------
(***************************************************************************)
(* SpecSummons: entities that stand still, each with the summons it        *)
(* spawned (an entity is only ever the summon of an entity created before  *)
(* it), are given attack targets.                                          *)
(***************************************************************************)
\* the members of S in ascending order
RECURSIVE Ascending(_)
Ascending(S) == IF S = {} THEN <<>> ELSE <<MinOf(S)>> \o Ascending(S \ {MinOf(S)})

\* the master references in which no entity is attached upward
SpawnedMasters ==
    {ms \in [Creatures -> Creatures \cup {None}] : \A c \in Creatures : ms[c] = None \/ ms[c] < c}

\* the entities below x in the master chain
Descendants(ms, x) == {d \in Creatures : x \in Ancestors(ms, d)}

InitSummons ==
    /\ master \in SpawnedMasters
    /\ summons = [m \in Creatures |-> Ascending({c \in Creatures : master[c] = m})]
    /\ health = [c \in Creatures |-> MaxHealth]
    /\ removed = {}
    /\ dispatcher = <<>>
    /\ deathCount = [c \in Creatures |-> 0]
    /\ upward = FALSE
    /\ deathResult = NoDeathResult
    /\ followerPos = Pos(0, 0)
    /\ creaturePos \in [Creatures -> FollowPositions]
    /\ creaturePos[Self] = Pos(0, 0)
    /\ followCreature = None
    /\ hasFollowPath = FALSE
    /\ isUpdatingPath = FALSE
    /\ CacheIdle /\ BlockIdle /\ LedgerIdle
    /\ KillIdle /\ GainIdle /\ CondIdle
    /\ WalkIdle /\ AttackIdle /\ MatchIdle /\ TimerIdle /\ NpcIdle /\ EventIdle
    /\ lastOp = [op |-> "init"]

NextSummons ==
    \E c \in Creatures, creature \in Creatures \cup {None} :
        creature # c /\ setAttackedCreature(c, creature)

SpecSummons == InitSummons /\ [][NextSummons]_vars

\* C39: after setAttackedCreature(null) on an entity neither the entity nor
\* any entity below it in the summon lists has an attack target, and after
\* a successful setAttackedCreature(t) every entity on its summon list has
\* the attack target t or none.
C39_AssignmentPassedDown ==
    [][ lastOp'.op = "setAttackedCreature" =>
          LET c == lastOp'.self
              t == lastOp'.creature
          IN /\ t = None =>
                   /\ lastOp'.ret
                   /\ \A d \in {c} \cup Descendants(master, c) : attackedCreature'[d] = None
             /\ (t # None /\ lastOp'.ret) =>
                   /\ attackedCreature'[c] = t
                   /\ \A i \in 1..Len(summons[c]) : attackedCreature'[summons[c][i]] \in {t, None}
      ]_vars

\* C39 witness: setAttackedCreature(null) on an entity that had an attack
\* target took the attack target from a summon of one of its summons.
C39_Witness ==
    /\ lastOp.op = "setAttackedCreature"
    /\ lastOp.creature = None
    /\ lastOp.held # None
    /\ \E d \in lastOp.changed :
          master[d] # None /\ master[master[d]] = lastOp.self /\ attackedCreature[d] = None


-----------------------------------------------------------------------------
(***************************************************************************)
(* SpecMatch: one path search towards a target calls the frozen distance   *)
(* matcher on candidate tiles, all calls sharing one best-match value.     *)
(***************************************************************************)
MatchGrid == 3          \* the candidate tiles have x and y in 0..MatchGrid
MaxTargetDist == 2      \* FindPathParams::maxTargetDist is in 1..MaxTargetDist

MatchTiles == {[x |-> x, y |-> y] : x \in 0..MatchGrid, y \in 0..MatchGrid}

\* the distance of a tile to the target that operator() computes
TestDist(targetPos, testPos) ==
    Max(getDistanceX(targetPos, testPos), getDistanceY(targetPos, testPos))

\* FrozenPathingConditionCall::isInRange(startPos, testPos, fpp)
isInRange(pc, testPos) ==
    IF pc.fullPathSearch
    THEN /\ ~(testPos.x > pc.targetPos.x + pc.maxTargetDist)
         /\ ~(testPos.x < pc.targetPos.x - pc.maxTargetDist)
         /\ ~(testPos.y > pc.targetPos.y + pc.maxTargetDist)
         /\ ~(testPos.y < pc.targetPos.y - pc.maxTargetDist)
    ELSE LET dx == getOffsetX(pc.startPos, pc.targetPos)
             dxMax == IF dx >= 0 THEN pc.maxTargetDist ELSE 0
             dxMin == IF dx <= 0 THEN pc.maxTargetDist ELSE 0
             dy == getOffsetY(pc.startPos, pc.targetPos)
             dyMax == IF dy >= 0 THEN pc.maxTargetDist ELSE 0
             dyMin == IF dy <= 0 THEN pc.maxTargetDist ELSE 0
         IN /\ ~(testPos.x > pc.targetPos.x + dxMax)
            /\ ~(testPos.x < pc.targetPos.x - dxMin)
            /\ ~(testPos.y > pc.targetPos.y + dyMax)
            /\ ~(testPos.y < pc.targetPos.y - dyMin)

\* a matcher that accepts a tile as far away as the best match
FrozenMatchNotStrict(pc, testPos, sightClear, best) ==
    LET testDist == TestDist(pc.targetPos, testPos) IN
    IF ~isInRange(pc, testPos) \/ (pc.clearSight /\ ~sightClear)
    THEN [ret |-> FALSE, bestMatchDist |-> best]
    ELSE IF pc.maxTargetDist = 1
    THEN [ret |-> ~(testDist < pc.minTargetDist \/ testDist > pc.maxTargetDist),
          bestMatchDist |-> best]
    ELSE IF testDist <= pc.maxTargetDist /\ testDist >= pc.minTargetDist
    THEN IF testDist = pc.maxTargetDist THEN [ret |-> TRUE, bestMatchDist |-> 0]
         ELSE [ret |-> testDist >= best, bestMatchDist |-> Max(testDist, best)]
    ELSE [ret |-> FALSE, bestMatchDist |-> best]

\* FrozenPathingConditionCall::operator()(startPos, testPos, fpp, bestMatchDist):
\* the value returned and the best-match value afterwards; sightClear is
\* g_game.isSightClear(testPos, targetPos, true)
FrozenMatch(pc, testPos, sightClear, best) ==
    LET testDist == TestDist(pc.targetPos, testPos) IN
    IF ~isInRange(pc, testPos) THEN [ret |-> FALSE, bestMatchDist |-> best]
    ELSE IF pc.clearSight /\ ~sightClear THEN [ret |-> FALSE, bestMatchDist |-> best]
    ELSE IF pc.maxTargetDist = 1
    THEN IF testDist < pc.minTargetDist \/ testDist > pc.maxTargetDist
         THEN [ret |-> FALSE, bestMatchDist |-> best]
         ELSE [ret |-> TRUE, bestMatchDist |-> best]
    ELSE IF testDist <= pc.maxTargetDist
    THEN IF testDist < pc.minTargetDist THEN [ret |-> FALSE, bestMatchDist |-> best]
         ELSE IF testDist = pc.maxTargetDist THEN [ret |-> TRUE, bestMatchDist |-> 0]
         ELSE IF testDist > best THEN [ret |-> TRUE, bestMatchDist |-> testDist]
         ELSE [ret |-> FALSE, bestMatchDist |-> best]
    ELSE [ret |-> FALSE, bestMatchDist |-> best]

\* one call of the matcher on the candidate tile testPos
FrozenPathingConditionCall(testPos, sightClear) ==
    LET r == FrozenMatch(pathCondition, testPos, sightClear, bestMatchDist) IN
    /\ bestMatchDist' = r.bestMatchDist
    /\ bestSeen' = IF r.ret THEN Max(bestSeen, TestDist(pathCondition.targetPos, testPos))
                   ELSE bestSeen
    /\ lastOp' = [op |-> "FrozenPathingConditionCall", testPos |-> testPos, ret |-> r.ret]
    /\ UNCHANGED pathCondition
    /\ UNCHANGED <<cacheVars, ownerVars, blockVars, ledgerVars, killVars, gainVars, followVars, condVars, walkVars, attackVars, timerVars, npcVars, eventVars>>

InitMatch ==
    /\ pathCondition \in [targetPos : {[x |-> MatchGrid \div 2, y |-> MatchGrid \div 2]},
                          startPos : MatchTiles,
                          fullPathSearch : BOOLEAN, clearSight : BOOLEAN,
                          minTargetDist : 0..MaxTargetDist, maxTargetDist : 1..MaxTargetDist]
    /\ pathCondition.minTargetDist <= pathCondition.maxTargetDist
    /\ bestMatchDist = 0
    /\ bestSeen = 0
    /\ CacheIdle /\ OwnerIdle /\ BlockIdle /\ LedgerIdle
    /\ KillIdle /\ GainIdle /\ FollowIdle /\ CondIdle
    /\ WalkIdle /\ AttackIdle /\ TimerIdle /\ NpcIdle /\ EventIdle
    /\ lastOp = [op |-> "init"]

NextMatch ==
    \E testPos \in MatchTiles, sightClear \in BOOLEAN : FrozenPathingConditionCall(testPos, sightClear)

SpecMatch == InitMatch /\ [][NextMatch]_vars

\* the max-distance box around the target, cut down for a non-full search
\* to the side of the target on which the search start lies
InMatchBox(pc, testPos) ==
    LET side(t, s, c) ==
            /\ Abs(c - t) <= pc.maxTargetDist
            /\ pc.fullPathSearch \/ s = t \/ (s > t /\ c >= t) \/ (s < t /\ c <= t)
    IN /\ side(pc.targetPos.x, pc.startPos.x, testPos.x)
       /\ side(pc.targetPos.y, pc.startPos.y, testPos.y)

\* what the matcher accepts, whatever was accepted before
MatchAcceptsInBoxAndRange ==
    (lastOp'.op = "FrozenPathingConditionCall" /\ lastOp'.ret) =>
        LET d == TestDist(pathCondition.targetPos, lastOp'.testPos) IN
        /\ InMatchBox(pathCondition, lastOp'.testPos)
        /\ pathCondition.minTargetDist <= d /\ d <= pathCondition.maxTargetDist

\* an accepted tile below the maximum distance
AcceptedBelowMax ==
    /\ lastOp'.op = "FrozenPathingConditionCall" /\ lastOp'.ret
    /\ pathCondition.maxTargetDist > 1
    /\ TestDist(pathCondition.targetPos, lastOp'.testPos) < pathCondition.maxTargetDist

-----------------------------------------------------------------------------
(***************************************************************************)
(* SpecTimer: the walk timer of an entity that follows a target.  The      *)
(* handles of the armed scheduler events that run the entity's walk check  *)
(* are kept beside the handle the entity holds in eventWalk.  The target   *)
(* may follow the entity in turn: it then answers a step of the entity     *)
(* with a step of its own inside the entity's move request (its            *)
(* onCreatureMove re-plans and takes the first step at once), and that     *)
(* step is delivered to the entity's onCreatureMove.                       *)
(***************************************************************************)
MaxWalkEvents == 3   \* at most this many walk events of the entity are armed

\* what the target does inside a move request of the entity: nothing, or a
\* step after which getPathTo of the entity finds no path or the given path
Reactions == {<<"none">>, <<"noPath">>} \cup {<<"path", l>> : l \in DirectionLists}

\* the walk state with the timer
TimerState ==
    [listWalkDir |-> listWalkDir, cancelNextWalk |-> cancelNextWalk,
     forceUpdateFollowPath |-> forceUpdateFollowPath,
     hasFollowPath |-> hasFollowPath, isUpdatingPath |-> isUpdatingPath,
     walkEvents |-> walkEvents, eventWalkId |-> eventWalkId]

\* g_scheduler.addEvent: a handle that no armed event and not the entity holds
NewEventId(st) == MinOf((1..(MaxWalkEvents + 2)) \ (st.walkEvents \cup {st.eventWalkId}))

\* eventWalk = g_scheduler.addEvent(createSchedulerTask(ticks, checkCreatureWalk))
ArmWalkEvent(st) ==
    [st EXCEPT !.walkEvents = @ \cup {NewEventId(st)}, !.eventWalkId = NewEventId(st)]

\* Creature::stopEventWalk
StopEventWalk(st) ==
    IF st.eventWalkId # 0
    THEN [st EXCEPT !.walkEvents = @ \ {st.eventWalkId}, !.eventWalkId = 0]
    ELSE st

\* Creature::addEventWalk(firstStep) with a walk delay of more than one tick
\* left (the entity has just moved, or firstStep is false): no inline step
AddEventWalkLater(st, canStep) ==
    LET st1 == [st EXCEPT !.cancelNextWalk = FALSE] IN
    IF ~canStep \/ st1.eventWalkId # 0 THEN st1 ELSE ArmWalkEvent(st1)

\* Creature::onCreatureMove(target, ...) delivered to the entity inside its
\* own move request, and the goToFollowCreature and startAutoWalk() it calls
OnTargetMoved(st, reaction, canStep) ==
    IF reaction[1] = "none" \/ followCreature = None \/ ~st.hasFollowPath THEN st
    ELSE IF st.listWalkDir # <<>> THEN [st EXCEPT !.isUpdatingPath = TRUE]
    ELSE IF reaction[1] = "noPath"
    THEN [st EXCEPT !.isUpdatingPath = FALSE, !.hasFollowPath = FALSE]
    ELSE AddEventWalkLater([st EXCEPT !.isUpdatingPath = FALSE, !.hasFollowPath = TRUE,
                                      !.listWalkDir = reaction[2]], canStep)

\* Creature::onWalk called by a walk check
OnWalkTimed(st, walkDelay, moveOk, canStep, reaction) ==
    LET moved == walkDelay <= 0 /\ st.listWalkDir # <<>> /\ moveOk
        st1 == IF walkDelay > 0 THEN st
               ELSE IF st.listWalkDir # <<>>
               THEN IF moveOk
                    THEN OnTargetMoved([st EXCEPT !.listWalkDir = Front(@)], reaction, canStep)
                    ELSE [st EXCEPT !.listWalkDir = Front(@), !.forceUpdateFollowPath = TRUE]
               ELSE StopEventWalk(st)
        st2 == IF st1.cancelNextWalk
               THEN [st1 EXCEPT !.listWalkDir = <<>>, !.cancelNextWalk = FALSE]
               ELSE st1
    IN IF st2.eventWalkId # 0
       THEN IF moved \/ walkDelay # 1
            THEN AddEventWalkLater([st2 EXCEPT !.eventWalkId = 0], canStep)
            \* one tick left: addEventWalk runs a walk check, which does
            \* nothing behind its walk delay test, and arms
            ELSE IF canStep THEN ArmWalkEvent([st2 EXCEPT !.eventWalkId = 0])
            ELSE [st2 EXCEPT !.eventWalkId = 0]
       ELSE st2

\* Creature::addEventWalk(firstStep)
AddEventWalkTimed(st, firstStep, walkDelay, moveOk, canStep, reaction) ==
    LET st1 == [st EXCEPT !.cancelNextWalk = FALSE] IN
    IF ~canStep \/ st1.eventWalkId # 0 THEN st1
    ELSE IF getEventStepTicks(walkDelay, firstStep) = 1
    THEN ArmWalkEvent(OnWalkTimed(st1, walkDelay, moveOk, canStep, reaction))
    ELSE ArmWalkEvent(st1)

\* the walk state with the timer after an operation
SetTimerState(st) ==
    /\ listWalkDir' = st.listWalkDir
    /\ cancelNextWalk' = st.cancelNextWalk
    /\ forceUpdateFollowPath' = st.forceUpdateFollowPath
    /\ hasFollowPath' = st.hasFollowPath
    /\ isUpdatingPath' = st.isUpdatingPath
    /\ walkEvents' = st.walkEvents
    /\ eventWalkId' = st.eventWalkId
    /\ Cardinality(st.walkEvents) <= MaxWalkEvents
    /\ eventWalk' = (st.eventWalkId # 0)
    /\ UNCHANGED <<walkStarted, walkMoved, followerPos, creaturePos, followCreature>>
    /\ UNCHANGED <<cacheVars, ownerVars, blockVars, ledgerVars, killVars, gainVars, condVars, attackVars, matchVars, npcVars, eventVars>>

\* Creature::startAutoWalk(listDir) of an entity whose movement is not blocked
startAutoWalkTimed(listDir, walkDelay, moveOk, canStep, reaction) ==
    /\ SetTimerState(AddEventWalkTimed([TimerState EXCEPT !.listWalkDir = listDir],
                                       Len(listDir) = 1, walkDelay, moveOk, canStep, reaction))
    /\ lastOp' = [op |-> "startAutoWalk", reentered |-> FALSE]

\* Creature::goToFollowCreature called by a think pass: getPathTo finds the
\* path listDir, and startAutoWalk() starts the walk
goToFollowCreature(listDir, walkDelay, moveOk, canStep, reaction) ==
    LET st == [TimerState EXCEPT !.listWalkDir = listDir, !.hasFollowPath = TRUE,
                                 !.isUpdatingPath = FALSE]
        inline == canStep /\ eventWalkId = 0 /\ getEventStepTicks(walkDelay, Len(listDir) = 1) = 1
    IN /\ followCreature # None
       /\ SetTimerState(AddEventWalkTimed(st, Len(listDir) = 1, walkDelay, moveOk, canStep, reaction))
       /\ lastOp' = [op |-> "goToFollowCreature",
                     reentered |-> (/\ inline /\ walkDelay <= 0 /\ moveOk
                                    /\ Len(listDir) = 1 /\ reaction[1] = "path")]

\* the armed walk event id fires: Game::checkCreatureWalk calls onWalk
checkCreatureWalk(id, walkDelay, moveOk, canStep, reaction) ==
    /\ id \in walkEvents
    /\ SetTimerState(OnWalkTimed([TimerState EXCEPT !.walkEvents = @ \ {id}],
                                 walkDelay, moveOk, canStep, reaction))
    /\ lastOp' = [op |-> "onWalk", reentered |-> FALSE]

\* Creature::stopEventWalk
stopEventWalk ==
    /\ SetTimerState(StopEventWalk(TimerState))
    /\ lastOp' = [op |-> "stopEventWalk", reentered |-> FALSE]

InitTimer ==
    /\ WalkIdle /\ AttackIdle /\ MatchIdle /\ TimerIdle /\ NpcIdle /\ EventIdle
    /\ OwnerIdle /\ CacheIdle /\ BlockIdle /\ LedgerIdle
    /\ KillIdle /\ GainIdle /\ CondIdle
    /\ followerPos = Pos(0, 0)
    /\ creaturePos = [c \in Creatures |-> Pos(0, 0)]
    /\ followCreature \in FollowTargets
    /\ hasFollowPath = FALSE
    /\ isUpdatingPath = TRUE
    /\ lastOp = [op |-> "init"]

NextTimer ==
    \/ \E listDir \in DirectionLists, walkDelay \in WalkDelays, moveOk, canStep \in BOOLEAN,
          reaction \in Reactions :
          startAutoWalkTimed(listDir, walkDelay, moveOk, canStep, reaction)
    \/ \E listDir \in DirectionLists, walkDelay \in WalkDelays, moveOk, canStep \in BOOLEAN,
          reaction \in Reactions :
          goToFollowCreature(listDir, walkDelay, moveOk, canStep, reaction)
    \/ \E id \in 1..(MaxWalkEvents + 2), walkDelay \in WalkDelays, moveOk, canStep \in BOOLEAN,
          reaction \in Reactions :
          checkCreatureWalk(id, walkDelay, moveOk, canStep, reaction)
    \/ stopEventWalk

SpecTimer == InitTimer /\ [][NextTimer]_vars

\* C34: at most one walk event of the entity is armed, and it is the one
\* whose handle the entity holds in eventWalk.
C34_OneWalkTimer ==
    /\ walkEvents \subseteq {eventWalkId}
    /\ eventWalkId # 0 => eventWalkId \in walkEvents


\* C36: after death resolution the experience amounts passed to the direct
\* gain-experience notifications, one per awarded attacker or party leader,
\* add up to at most the lost experience of the dying entity.
C36_AwardsWithinLostExperience ==
    (lastOp.op = "executeDeath" /\ lastOp.ran) =>
        SumOver(deathResult.experienceMap, DOMAIN deathResult.experienceMap) <= lostExperience

\* C36 witness: death resolution has notified the leader of a party with
\* the share of a member added to its own, the whole lost experience.
C36_Witness ==
    /\ lastOp.op = "executeDeath" /\ lastOp.ran
    /\ \E a \in DOMAIN damageMap :
          /\ sharedLeader[a] # None
          /\ sharedLeader[a] \in DOMAIN damageMap
          /\ sharedLeader[a] \in DOMAIN deathResult.experienceMap
          /\ a \notin DOMAIN deathResult.experienceMap
          /\ deathResult.experienceMap[sharedLeader[a]] = lostExperience


-----------------------------------------------------------------------------
(***************************************************************************)
(* SpecNpc: Self is an NPC.  The world places it, moves it and the         *)
(* entities around it, and removes them; every event is delivered to the   *)
(* NPC.  The NPC takes health changes, and the dispatcher runs its death   *)
(* resolution.                                                             *)
(***************************************************************************)
\* the entities around the NPC that are players; the others are monsters
Players == {c \in Creatures \ {Self} : c % 2 = 0}

\* Npc::setIdle(idle): the idle flag afterwards
SetIdle(flag, idle) ==
    IF idle = flag THEN flag
    ELSE IF Self \in removed \/ health[Self] <= 0 THEN flag
    ELSE idle

\* Npc::reset
reset ==
    /\ isIdle' = TRUE
    /\ spectators' = {}
    /\ lastOp' = [op |-> "reset"]
    /\ UNCHANGED <<inView, placed>>
    /\ UNCHANGED <<cacheVars, ownerVars, blockVars, ledgerVars, killVars, gainVars, followVars, condVars, walkVars, attackVars, matchVars, timerVars, eventVars>>

\* Npc::reload: reset, then the players that see the NPC are the spectators
reload ==
    /\ placed /\ Self \notin removed
    /\ spectators' = inView \cap Players
    /\ isIdle' = SetIdle(TRUE, inView \cap Players = {})
    /\ lastOp' = [op |-> "reload"]
    /\ UNCHANGED <<inView, placed>>
    /\ UNCHANGED <<cacheVars, ownerVars, blockVars, ledgerVars, killVars, gainVars, followVars, condVars, walkVars, attackVars, matchVars, timerVars, eventVars>>

\* Npc::onCreatureAppear(creature, isLogin): the world has put creature on
\* the map, within view of the NPC's position
onCreatureAppearNpc(creature) ==
    /\ Self \notin removed
    /\ IF creature = Self
       THEN /\ ~placed
            /\ placed' = TRUE
            /\ spectators' = spectators \cup (inView \cap Players)
            /\ isIdle' = SetIdle(isIdle, spectators' = {})
            /\ UNCHANGED inView
       ELSE /\ placed
            /\ creature \notin inView
            /\ inView' = inView \cup {creature}
            /\ spectators' = IF creature \in Players THEN spectators \cup {creature} ELSE spectators
            /\ isIdle' = IF creature \in Players THEN SetIdle(isIdle, FALSE) ELSE isIdle
            /\ UNCHANGED placed
    /\ lastOp' = [op |-> "onCreatureAppear", creature |-> creature]
    /\ UNCHANGED <<cacheVars, ownerVars, blockVars, ledgerVars, killVars, gainVars, followVars, condVars, walkVars, attackVars, matchVars, timerVars, eventVars>>

\* Npc::onRemoveCreature(creature, isLogout): the world has taken another
\* entity from the map (the removal of the NPC itself is executeDeath)
onRemoveCreatureNpc(creature) ==
    /\ placed /\ Self \notin removed
    /\ creature \in inView
    /\ inView' = inView \ {creature}
    /\ spectators' = IF creature \in Players THEN spectators \ {creature} ELSE spectators
    /\ isIdle' = IF creature \in Players THEN SetIdle(isIdle, spectators' = {}) ELSE isIdle
    /\ lastOp' = [op |-> "onRemoveCreature", creature |-> creature]
    /\ UNCHANGED placed
    /\ UNCHANGED <<cacheVars, ownerVars, blockVars, ledgerVars, killVars, gainVars, followVars, condVars, walkVars, attackVars, matchVars, timerVars, eventVars>>

\* Npc::onCreatureMove(creature, ...): the world has moved the NPC or an
\* entity on the map; seesAfter is player->canSee(position) after the
\* move, and after a move of the NPC the entities in seen see its position
onCreatureMoveNpc(creature, seesAfter, seen) ==
    /\ placed /\ Self \notin removed
    /\ IF creature = Self
       THEN /\ inView' = seen
            /\ UNCHANGED <<spectators, isIdle>>
       ELSE /\ creature \in inView \/ seesAfter
            /\ seen = inView
            /\ inView' = IF seesAfter THEN inView \cup {creature} ELSE inView \ {creature}
            /\ spectators' = IF creature \notin Players THEN spectators
                             ELSE IF seesAfter THEN spectators \cup {creature}
                             ELSE spectators \ {creature}
            /\ isIdle' = IF creature \in Players THEN SetIdle(isIdle, spectators' = {}) ELSE isIdle
    /\ lastOp' = [op |-> "onCreatureMove", creature |-> creature]
    /\ UNCHANGED placed
    /\ UNCHANGED <<cacheVars, ownerVars, blockVars, ledgerVars, killVars, gainVars, followVars, condVars, walkVars, attackVars, matchVars, timerVars, eventVars>>

InitNpc ==
    /\ NpcIdle /\ EventIdle
    /\ WalkIdle /\ AttackIdle /\ MatchIdle /\ TimerIdle
    /\ OwnerIdle /\ CacheIdle /\ BlockIdle /\ LedgerIdle
    /\ KillIdle /\ GainIdle /\ FollowIdle /\ CondIdle
    /\ lastOp = [op |-> "init"]

NextNpc ==
    \/ reset
    \/ reload
    \/ \E creature \in Creatures : onCreatureAppearNpc(creature)
    \/ \E creature \in Creatures \ {Self} : onRemoveCreatureNpc(creature)
    \/ \E creature \in Creatures, seesAfter \in BOOLEAN, seen \in SUBSET (Creatures \ {Self}) :
          onCreatureMoveNpc(creature, seesAfter, seen)
    \/ \E healthChange \in (-MaxHealth)..MaxHealth : changeHealth(Self, healthChange)
    \/ executeDeath

SpecNpc == InitNpc /\ [][NextNpc]_vars

\* C37: for an NPC that is alive and not removed, after each of reset,
\* reload, onCreatureAppear, onRemoveCreature and onCreatureMove the idle
\* flag is true if and only if the spectator set is empty.
C37_IdleIffNoSpectators ==
    (/\ lastOp.op \in {"reset", "reload", "onCreatureAppear", "onRemoveCreature", "onCreatureMove"}
     /\ health[Self] > 0 /\ Self \notin removed)
        => (isIdle <=> spectators = {})


-----------------------------------------------------------------------------
(***************************************************************************)
(* SpecEvents: script events are registered on an entity and unregistered. *)
(***************************************************************************)
NumEvents == 4       \* g_creatureEvents knows the events 1..NumEvents
NumEventTypes == 2   \* their types are 0..NumEventTypes - 1

CreatureEvents == 1..NumEvents
\* the names the calls are made with: 0 is a name that getEventByName does not know
EventNames == {None} \cup CreatureEvents

\* CreatureEvent::getEventType
getEventType(event) == event % NumEventTypes

\* Creature::hasEventRegistered(type): the bit 1 << type of the bit field
hasEventRegistered(field, type) == (field \div Pow2(type)) % 2 = 1

\* scriptEventsBitField |= 1 << type
SetTypeBit(field, type) == IF hasEventRegistered(field, type) THEN field ELSE field + Pow2(type)

\* scriptEventsBitField &= ~(1 << type)
ResetTypeBit(field, type) == IF hasEventRegistered(field, type) THEN field - Pow2(type) ELSE field

\* Creature::registerCreatureEvent(name)
RegisterCreatureEventResult(list, field, event) ==
    IF event = None THEN [eventsList |-> list, scriptEventsBitField |-> field, ret |-> FALSE]
    ELSE IF hasEventRegistered(field, getEventType(event)) /\ Find(list, event) # 0
    THEN [eventsList |-> list, scriptEventsBitField |-> field, ret |-> FALSE]
    ELSE [eventsList |-> Append(list, event),
          scriptEventsBitField |-> SetTypeBit(field, getEventType(event)),
          ret |-> TRUE]

\* an unregisterCreatureEvent that resets the bit of the type in any case
UnregisterResetsTypeBit(list, field, event) ==
    IF event = None \/ ~hasEventRegistered(field, getEventType(event))
    THEN [eventsList |-> list, scriptEventsBitField |-> field, ret |-> FALSE]
    ELSE [eventsList |-> SelectSeq(list, LAMBDA e : e # event),
          scriptEventsBitField |-> ResetTypeBit(field, getEventType(event)),
          ret |-> TRUE]

\* Creature::unregisterCreatureEvent(name)
UnregisterCreatureEventResult(list, field, event) ==
    IF event = None THEN [eventsList |-> list, scriptEventsBitField |-> field, ret |-> FALSE]
    ELSE IF ~hasEventRegistered(field, getEventType(event))
    THEN [eventsList |-> list, scriptEventsBitField |-> field, ret |-> FALSE]
    ELSE LET kept == SelectSeq(list, LAMBDA e : e # event)
             resetTypeBit == \A i \in 1..Len(kept) : getEventType(kept[i]) # getEventType(event)
         IN [eventsList |-> kept,
             scriptEventsBitField |-> IF resetTypeBit
                                      THEN ResetTypeBit(field, getEventType(event))
                                      ELSE field,
             ret |-> TRUE]

\* Creature::registerCreatureEvent(name); event is g_creatureEvents->getEventByName(name)
registerCreatureEvent(event) ==
    LET r == RegisterCreatureEventResult(eventsList, scriptEventsBitField, event) IN
    /\ eventsList' = r.eventsList
    /\ scriptEventsBitField' = r.scriptEventsBitField
    /\ lastOp' = [op |-> "registerCreatureEvent", event |-> event, ret |-> r.ret]
    /\ UNCHANGED <<cacheVars, ownerVars, blockVars, ledgerVars, killVars, gainVars, followVars, condVars, walkVars, attackVars, matchVars, timerVars, npcVars>>

\* Creature::unregisterCreatureEvent(name)
unregisterCreatureEvent(event) ==
    LET r == UnregisterCreatureEventResult(eventsList, scriptEventsBitField, event) IN
    /\ eventsList' = r.eventsList
    /\ scriptEventsBitField' = r.scriptEventsBitField
    /\ lastOp' = [op |-> "unregisterCreatureEvent", event |-> event, ret |-> r.ret]
    /\ UNCHANGED <<cacheVars, ownerVars, blockVars, ledgerVars, killVars, gainVars, followVars, condVars, walkVars, attackVars, matchVars, timerVars, npcVars>>

InitEvents ==
    /\ EventIdle /\ NpcIdle
    /\ WalkIdle /\ AttackIdle /\ MatchIdle /\ TimerIdle
    /\ OwnerIdle /\ CacheIdle /\ BlockIdle /\ LedgerIdle
    /\ KillIdle /\ GainIdle /\ FollowIdle /\ CondIdle
    /\ lastOp = [op |-> "init"]

NextEvents ==
    \/ \E event \in EventNames : registerCreatureEvent(event)
    \/ \E event \in EventNames : unregisterCreatureEvent(event)

SpecEvents == InitEvents /\ [][NextEvents]_vars

\* C38: the bit of an event type is set in the script-event bit field if and
\* only if the event list holds at least one event of that type, and no
\* event occurs in the list more than once.
C38_BitFieldMatchesEventList ==
    /\ \A type \in 0..(NumEventTypes - 1) :
          hasEventRegistered(scriptEventsBitField, type)
             <=> \E i \in 1..Len(eventsList) : getEventType(eventsList[i]) = type
    /\ \A i, j \in 1..Len(eventsList) : eventsList[i] = eventsList[j] => i = j
    /\ scriptEventsBitField < Pow2(NumEventTypes)

\* C38 witness: an event has been unregistered while another event of its
\* type stays in the list, and an event of another type is in the list too.
C38_Witness ==
    /\ lastOp.op = "unregisterCreatureEvent"
    /\ lastOp.ret
    /\ Find(eventsList, lastOp.event) = 0
    /\ \E i, j \in 1..Len(eventsList) :
          /\ getEventType(eventsList[i]) = getEventType(lastOp.event)
          /\ getEventType(eventsList[j]) # getEventType(lastOp.event)
    /\ hasEventRegistered(scriptEventsBitField, getEventType(lastOp.event))

=============================================================================
